---- MODULE Spec2Model ----
(***************************************************************************)
(* GrlRPC serialization core: the Type Name Registry (type_registry.h),    *)
(* the Reflection Registry, the Serializer Registry and the Serializer     *)
(* Factory (serialization_framework.h).                                    *)
(*                                                                         *)
(* Every public registry operation takes the registry's mutex for its      *)
(* whole body (std::lock_guard on the first line), so one operation is one *)
(* atomic action here.  The Th_ actions split the operations into their    *)
(* statements and interleave two caller threads, to check just that.       *)
(***************************************************************************)
EXTENDS Integers, Sequences, FiniteSets, Bags, TLC

VARIABLES
    type_names_,        \* TypeRegistry::type_names_      : typeid name -> registered name
    name_to_type_id_,   \* TypeRegistry::name_to_type_id_ : registered name -> typeid name
    descriptors_,       \* ReflectionRegistry::descriptors_ : type name -> MessageDescriptor
    serializers_,       \* SerializerRegistry::serializers_ : format name -> ISerializer
    type_serializers_,  \* SerializerRegistry::type_serializers_ : key -> TypeSerializerWrapper
    ret,                \* the call that returned last: its operation, arguments and results
    tr_last,            \* history: type -> custom_name argument of its last RegisterType since the last Clear
    rr_last,            \* history: name -> descriptor argument of its last RegisterType since the last Clear
    sr_last,            \* history: format name -> serializer of its last RegisterSerializer since the last Clear
    srt_last,           \* history: <<type, format name>> -> serializer of its last RegisterTypeSerializer since the last Clear
    local_desc,         \* the local "grlrpc::MessageDescriptor desc" of a registration function
    added,              \* history: the fields handed to AddField on that descriptor, in call order
    program,            \* the static registrar objects linked into the program
    pending,            \* the registrar objects whose constructors have not run yet
    created,            \* the registries whose function-local static instance is constructed
    pc,                 \* thread -> the call it is in and its position in the call
    mutex,              \* registry -> the thread that holds its mutex_, "" when unlocked
    lin,                \* history: the registry maps with every call applied whole, in the order the calls took the lock
    lin_val,            \* history: thread -> the answer to the call it is in over lin when it took the lock
    stale               \* the threads inside a Factory call whose serializer or descriptor pointer no longer points to the live entry

vars == <<type_names_, name_to_type_id_, descriptors_, serializers_, type_serializers_,
          ret, tr_last, rr_last, sr_last, srt_last, local_desc, added,
          program, pending, created, pc, mutex, lin, lin_val, stale>>

trVars == <<type_names_, name_to_type_id_, tr_last>>
rrVars == <<descriptors_, rr_last>>
srVars == <<serializers_, type_serializers_, sr_last, srt_last>>
mdVars == <<local_desc, added>>
\* what the operations of the three registries and of the Factory never touch
suVars == <<program, pending, created>>
thVars == <<pc, mutex, lin, lin_val, stale>>
envVars == <<mdVars, suVars, thVars>>

----------------------------------------------------------------------------
(* Bounds and input universes                                              *)

\* field values range over 0..MaxVal
MaxVal == 1

\* the most fields added to one descriptor
MaxFields == 3

\* the classes of tests/type_registry_test.cpp
Types == {"TestClass1", "TestClass2", "nested::NestedClass"}

\* the custom_name arguments tried; "" is the default argument (none supplied).
\* "TestClass1" is also the demangled name of a class.
CustomNames == {"", "CustomName", "TestClass1"}

\* two different classes, each named Local in the unnamed namespace of its own
\* translation unit; the template parameter T of every registry operation can
\* be either
LocalTypes == {"Local in a.cpp", "Local in b.cpp"}

\* typeid(T).name() of the Itanium ABI (the header includes <cxxabi.h>)
TypeIdName(T) ==
    CASE T = "TestClass1" -> "10TestClass1"
      [] T = "TestClass2" -> "10TestClass2"
      [] T = "nested::NestedClass" -> "N6nested11NestedClassE"
      [] T \in LocalTypes -> "N12_GLOBAL__N_15LocalE"

\* abi::__cxa_demangle: the readable name, or the mangled name itself when
\* demangling fails (status != 0)
DemangleTypeName(mangled_name) ==
    CASE mangled_name = "10TestClass1" -> "TestClass1"
      [] mangled_name = "10TestClass2" -> "TestClass2"
      [] mangled_name = "N6nested11NestedClassE" -> "nested::NestedClass"
      [] mangled_name = "N12_GLOBAL__N_15LocalE" -> "(anonymous namespace)::Local"
      [] OTHER -> mangled_name

GetDemangledTypeName(T) == DemangleTypeName(TypeIdName(T))

----------------------------------------------------------------------------
(* std::unordered_map                                                      *)

EmptyMap == [k \in {} |-> ""]

\* m[k] = v : inserts the key or overwrites its value
MapPut(m, k, v) == [x \in (DOMAIN m) \cup {k} |-> IF x = k THEN v ELSE m[x]]

\* m.find(k) != m.end()
MapHas(m, k) == k \in DOMAIN m

\* m.size()
MapSize(m) == Cardinality(DOMAIN m)

\* what the caller holds before any call has returned
NoCall == [op |-> "none"]

\* history kept with a Clear: the keys the two maps of the registry held when
\* it was called
RegistryKeys(first, second) == [first |-> DOMAIN first, second |-> DOMAIN second]

\* the history variables: the argument v of the last registration under k
Record(h, k, v) == [x \in (DOMAIN h) \cup {k} |-> IF x = k THEN v ELSE h[x]]

----------------------------------------------------------------------------
(* TypeRegistry                                                            *)

\* a variant that ignores custom_name
RegisteredName_Demangled(type_id, custom_name) == DemangleTypeName(type_id)

\* the name RegisterType stores: custom_name, or the demangled name when
\* custom_name is empty
RegisteredName(type_id, custom_name) ==
    IF custom_name = "" THEN DemangleTypeName(type_id) ELSE custom_name

GetTypeName(T) ==
    LET type_id == TypeIdName(T)
    IN  IF MapHas(type_names_, type_id) THEN type_names_[type_id] ELSE ""

\* a variant that asks the reverse map for the demangled name
IsTypeRegistered_ByName(T) == MapHas(name_to_type_id_, DemangleTypeName(TypeIdName(T)))

IsTypeRegistered(T) == MapHas(type_names_, TypeIdName(T))

HasTypeName(type_name) == MapHas(name_to_type_id_, type_name)

\* the vector GetAllTypeNames builds, one push_back per entry of type_names_;
\* unordered_map iteration order is unspecified, so the result is kept as a bag
GetAllTypeNames ==
    LET names == {type_names_[t] : t \in DOMAIN type_names_}
    IN  [n \in names |-> Cardinality({t \in DOMAIN type_names_ : type_names_[t] = n})]

\* a variant that counts the reverse map
GetRegisteredTypeCount_Names == MapSize(name_to_type_id_)

GetRegisteredTypeCount == MapSize(type_names_)

TR_RegisterType(T, custom_name) ==
    LET type_id == TypeIdName(T)
        type_name == RegisteredName(type_id, custom_name)
    IN  /\ type_names_' = MapPut(type_names_, type_id, type_name)
        /\ name_to_type_id_' = MapPut(name_to_type_id_, type_name, type_id)
        /\ tr_last' = Record(tr_last, T, custom_name)
        /\ ret' = [op |-> "TR.RegisterType", T |-> T, custom_name |-> custom_name]
        /\ UNCHANGED <<rrVars, srVars, envVars>>

\* a variant that reads the forward map with operator[], which inserts an
\* empty name under a key that is absent
TR_GetTypeName_Inserting(T) ==
    /\ type_names_' = IF MapHas(type_names_, TypeIdName(T))
                      THEN type_names_
                      ELSE MapPut(type_names_, TypeIdName(T), "")
    /\ ret' = [op |-> "TR.GetTypeName", T |-> T, val |-> GetTypeName(T)]
    /\ UNCHANGED <<name_to_type_id_, tr_last, rrVars, srVars, envVars>>

TR_GetTypeName(T) ==
    /\ ret' = [op |-> "TR.GetTypeName", T |-> T, val |-> GetTypeName(T)]
    /\ UNCHANGED <<trVars, rrVars, srVars, envVars>>

TR_IsTypeRegistered(T) ==
    /\ ret' = [op |-> "TR.IsTypeRegistered", T |-> T, val |-> IsTypeRegistered(T)]
    /\ UNCHANGED <<trVars, rrVars, srVars, envVars>>

TR_HasTypeName(type_name) ==
    /\ ret' = [op |-> "TR.HasTypeName", name |-> type_name, val |-> HasTypeName(type_name)]
    /\ UNCHANGED <<trVars, rrVars, srVars, envVars>>

TR_GetAllTypeNames ==
    /\ ret' = [op |-> "TR.GetAllTypeNames", val |-> GetAllTypeNames]
    /\ UNCHANGED <<trVars, rrVars, srVars, envVars>>

TR_GetRegisteredTypeCount ==
    /\ ret' = [op |-> "TR.GetRegisteredTypeCount", val |-> GetRegisteredTypeCount]
    /\ UNCHANGED <<trVars, rrVars, srVars, envVars>>

TR_Clear ==
    /\ type_names_' = EmptyMap
    /\ name_to_type_id_' = EmptyMap
    /\ tr_last' = EmptyMap
    /\ ret' = [op |-> "TR.Clear", wiped |-> RegistryKeys(type_names_, name_to_type_id_)]
    /\ UNCHANGED <<rrVars, srVars, envVars>>

\* the names HasTypeName is asked about: every name a registration can store,
\* and one that none stores (Test 7)
QueryNames == {RegisteredName(TypeIdName(T), c) : T \in Types, c \in CustomNames}
                \cup {"NonExistent"}

----------------------------------------------------------------------------
(* FieldDescriptor, MessageDescriptor                                      *)

\* nullptr: what a failed lookup returns
NULL == [null |-> TRUE]

\* the data member of each class of the tests and the FieldType it is
\* registered with
MemberOf(T) ==
    CASE T = "TestClass1" -> "value"
      [] T = "TestClass2" -> "name"
      [] T = "nested::NestedClass" -> "data"

FieldTypeOf(T) ==
    CASE T = "TestClass1" -> "INT32"
      [] T = "TestClass2" -> "STRING"
      [] T = "nested::NestedClass" -> "DOUBLE"

\* the values of a class: one value per data member
Vals == 0..MaxVal
Objects(T) == [{MemberOf(T)} -> Vals]

\* #class_type: the class name as written at the registration site, where the
\* macro pastes it into an identifier (class_type##_Registrar), so it is the
\* unqualified name
Stringized(T) ==
    CASE T = "TestClass1" -> "TestClass1"
      [] T = "TestClass2" -> "TestClass2"
      [] T = "nested::NestedClass" -> "NestedClass"

\* a variant that puts the new field in front
AddField_Front(desc, field) == [desc EXCEPT !.fields = <<field>> \o @]

\* MessageDescriptor::AddField: fields.push_back(field)
AddField(desc, field) == [desc EXCEPT !.fields = Append(@, field)]

\* AddFieldToDescriptor<ClassType, FieldType>: the getter and the setter are
\* closures over the member pointer; they are kept as the class and the member
\* they are bound to
AddFieldToDescriptor(desc, ClassType, name, type, field_number, member_ptr) ==
    AddField(desc, [name |-> name, type |-> type, field_number |-> field_number,
                    cls |-> ClassType, member |-> member_ptr])

\* field.getter(obj): typed_obj->*member_ptr
Getter(field, obj) == obj[field.member]

\* a variant that drops the value
Setter_Discard(field, obj, value) == obj

\* field.setter(obj, value): typed_obj->*member_ptr = any_cast<FieldType>(value)
Setter(field, obj, value) == [obj EXCEPT ![field.member] = value]

\* "grlrpc::MessageDescriptor desc; desc.message_name = #class_type;"
NewDescriptor(T) == [message_name |-> Stringized(T), fields |-> <<>>]

\* the descriptor a registration site builds for T with
\* GRLRPC_REGISTER_FIELD(desc, T, member, type, 1)
FullDescriptor(T) ==
    AddFieldToDescriptor(NewDescriptor(T), T, MemberOf(T), FieldTypeOf(T), 1, MemberOf(T))

\* MessageDescriptor::GetField: the loop over fields from position i on
RECURSIVE GetFieldFrom(_, _, _)
GetFieldFrom(desc, name, i) ==
    IF i > Len(desc.fields) THEN NULL
    ELSE IF desc.fields[i].name = name THEN desc.fields[i]
    ELSE GetFieldFrom(desc, name, i + 1)

GetField(desc, name) == GetFieldFrom(desc, name, 1)

\* MessageDescriptor::GetFieldByNumber
RECURSIVE GetFieldByNumberFrom(_, _, _)
GetFieldByNumberFrom(desc, number, i) ==
    IF i > Len(desc.fields) THEN NULL
    ELSE IF desc.fields[i].field_number = number THEN desc.fields[i]
    ELSE GetFieldByNumberFrom(desc, number, i + 1)

GetFieldByNumber(desc, number) == GetFieldByNumberFrom(desc, number, 1)

\* a FieldDescriptor filled in by hand: getter and setter are empty
HandField(name, type, field_number) ==
    [name |-> name, type |-> type, field_number |-> field_number,
     cls |-> NULL, member |-> NULL]

\* GRLRPC_BEGIN_TYPE_REGISTRATION(class_type): a fresh descriptor
MD_Begin(T) ==
    /\ local_desc' = NewDescriptor(T)
    /\ added' = <<>>
    /\ ret' = [op |-> "MD.Begin", T |-> T]
    /\ UNCHANGED <<trVars, rrVars, srVars, suVars, thVars>>

\* desc.AddField(field)
MD_AddField(field) ==
    /\ Len(local_desc.fields) < MaxFields
    /\ local_desc' = AddField(local_desc, field)
    /\ added' = Append(added, field)
    /\ ret' = [op |-> "MD.AddField", field |-> field]
    /\ UNCHANGED <<trVars, rrVars, srVars, suVars, thVars>>

\* GRLRPC_REGISTER_FIELD / AddFieldToDescriptor on desc
MD_AddFieldToDescriptor(ClassType, name, type, field_number, member_ptr) ==
    /\ Len(local_desc.fields) < MaxFields
    /\ local_desc' = AddFieldToDescriptor(local_desc, ClassType, name, type,
                                          field_number, member_ptr)
    /\ added' = Append(added, [name |-> name, type |-> type,
                               field_number |-> field_number,
                               cls |-> ClassType, member |-> member_ptr])
    /\ ret' = [op |-> "MD.AddFieldToDescriptor", name |-> name,
               field_number |-> field_number]
    /\ UNCHANGED <<trVars, rrVars, srVars, suVars, thVars>>

MD_GetField(name) ==
    /\ ret' = [op |-> "MD.GetField", name |-> name, val |-> GetField(local_desc, name)]
    /\ UNCHANGED <<trVars, rrVars, srVars, mdVars, suVars, thVars>>

MD_GetFieldByNumber(number) ==
    /\ ret' = [op |-> "MD.GetFieldByNumber", number |-> number,
               val |-> GetFieldByNumber(local_desc, number)]
    /\ UNCHANGED <<trVars, rrVars, srVars, mdVars, suVars, thVars>>

----------------------------------------------------------------------------
(* ReflectionRegistry                                                      *)

\* a variant that finds with operator[], which yields a default-constructed
\* descriptor for a missing name
GetDescriptor_Default(type_name) ==
    IF MapHas(descriptors_, type_name) THEN descriptors_[type_name]
    ELSE [message_name |-> "", fields |-> <<>>]

GetDescriptor(type_name) ==
    IF MapHas(descriptors_, type_name) THEN descriptors_[type_name] ELSE NULL

HasType(type_name) == MapHas(descriptors_, type_name)

\* one push_back per entry of descriptors_, in unspecified order: a bag
GetRegisteredTypes == [n \in DOMAIN descriptors_ |-> 1]

\* a variant that registers with insert(), which keeps an existing entry
RR_RegisterType_Insert(type_name, descriptor) ==
    /\ descriptors_' = IF MapHas(descriptors_, type_name) THEN descriptors_
                       ELSE MapPut(descriptors_, type_name, descriptor)
    /\ rr_last' = Record(rr_last, type_name, descriptor)
    /\ ret' = [op |-> "RR.RegisterType", name |-> type_name, descriptor |-> descriptor]
    /\ UNCHANGED <<trVars, srVars, envVars>>

RR_RegisterType(type_name, descriptor) ==
    /\ descriptors_' = MapPut(descriptors_, type_name, descriptor)
    /\ rr_last' = Record(rr_last, type_name, descriptor)
    /\ ret' = [op |-> "RR.RegisterType", name |-> type_name, descriptor |-> descriptor]
    /\ UNCHANGED <<trVars, srVars, envVars>>

RR_GetDescriptor(type_name) ==
    /\ ret' = [op |-> "RR.GetDescriptor", name |-> type_name, val |-> GetDescriptor(type_name)]
    /\ UNCHANGED <<trVars, rrVars, srVars, envVars>>

RR_HasType(type_name) ==
    /\ ret' = [op |-> "RR.HasType", name |-> type_name, val |-> HasType(type_name)]
    /\ UNCHANGED <<trVars, rrVars, srVars, envVars>>

RR_GetRegisteredTypes ==
    /\ ret' = [op |-> "RR.GetRegisteredTypes", val |-> GetRegisteredTypes]
    /\ UNCHANGED <<trVars, rrVars, srVars, envVars>>

RR_Clear ==
    /\ descriptors_' = EmptyMap
    /\ rr_last' = EmptyMap
    /\ ret' = [op |-> "RR.Clear", wiped |-> RegistryKeys(descriptors_, EmptyMap)]
    /\ UNCHANGED <<trVars, srVars, envVars>>

----------------------------------------------------------------------------
(* Static registration: REGISTER_TYPE, REGISTER_TYPE_WITH_NAME,            *)
(* GRLRPC_REGISTER_TYPE                                                    *)

\* a variant without "static": every call hands out a new, empty registry
Instance_PerCall(created_, registry, m) == EmptyMap

\* X::Instance() { static X instance; return instance; } seen through a
\* member map m of X: the instance is constructed, empty, by the first call
\* and is the same object in every later call
Instance(created_, registry, m) == IF registry \in created_ THEN m ELSE EmptyMap

\* the constructor of type_class##_TypeRegistrar
SU_RegisterType(r) ==
    LET type_id == TypeIdName(r.T)
        type_name == RegisteredName(type_id, r.custom_name)
    IN  /\ r \in pending
        /\ type_names_' =
              MapPut(Instance(created, "TypeRegistry", type_names_), type_id, type_name)
        /\ name_to_type_id_' =
              MapPut(Instance(created, "TypeRegistry", name_to_type_id_), type_name, type_id)
        /\ tr_last' = Record(tr_last, r.T, r.custom_name)
        /\ created' = created \cup {"TypeRegistry"}
        /\ pending' = pending \ {r}
        /\ ret' = [op |-> r.macro, T |-> r.T]
        /\ UNCHANGED <<rrVars, srVars, mdVars, thVars, program>>

\* the constructor of class_type##_Registrar: builds the descriptor and
\* registers it under #class_type
SU_RegisterReflection(r) ==
    LET descriptor == FullDescriptor(r.T)
    IN  /\ r \in pending
        /\ descriptors_' =
              MapPut(Instance(created, "ReflectionRegistry", descriptors_),
                     Stringized(r.T), descriptor)
        /\ rr_last' = Record(rr_last, Stringized(r.T), descriptor)
        /\ created' = created \cup {"ReflectionRegistry"}
        /\ pending' = pending \ {r}
        /\ ret' = [op |-> r.macro, T |-> r.T]
        /\ UNCHANGED <<trVars, srVars, mdVars, thVars, program>>

----------------------------------------------------------------------------
(* Serializer implementations: the plug-ins behind ISerializer and         *)
(* ITypeSerializer<T>.  The repository declares the interfaces only; an    *)
(* implementation either reports failure or encodes.                       *)

\* generic (reflection based) implementations
GenericImpls == {[impl |-> "G1", fails |-> FALSE], [impl |-> "G2", fails |-> TRUE]}

\* type-specific implementations for class T
TypeImpls(T) == {[impl |-> "S1", T |-> T, fails |-> FALSE],
                 [impl |-> "S2", T |-> T, fails |-> TRUE]}

\* the loop over desc.fields from field i on: each field number with the value
\* the field's getter returns for obj
RECURSIVE EncodeFields(_, _, _)
EncodeFields(fields, obj, i) ==
    IF i > Len(fields) THEN <<>>
    ELSE <<<<fields[i].field_number, Getter(fields[i], obj)>>>>
            \o EncodeFields(fields, obj, i + 1)

\* ISerializer::Serialize(obj, desc, output): walks desc.fields in order and
\* encodes each field number with the value its getter returns
GenericSerialize(ser, obj, desc, output) ==
    IF ser.fails
    THEN [ok |-> FALSE, output |-> output]
    ELSE [ok |-> TRUE, output |-> <<ser.impl, EncodeFields(desc.fields, obj, 1)>>]

\* the input is an encoding this implementation wrote for this descriptor
GenericAccepts(ser, input, desc) ==
    /\ Len(input) = 2
    /\ input[1] = ser.impl
    /\ Len(input[2]) = Len(desc.fields)
    /\ \A i \in 1..Len(desc.fields) : input[2][i][1] = desc.fields[i].field_number

RECURSIVE ApplySetters(_, _, _, _)
ApplySetters(desc, pairs, obj, i) ==
    IF i > Len(desc.fields) THEN obj
    ELSE ApplySetters(desc, pairs, Setter(desc.fields[i], obj, pairs[i][2]), i + 1)

\* ISerializer::Deserialize(input, obj, desc): decodes and calls each setter
GenericDeserialize(ser, input, obj, desc) ==
    IF ser.fails \/ ~GenericAccepts(ser, input, desc)
    THEN [ok |-> FALSE, obj |-> obj]
    ELSE [ok |-> TRUE, obj |-> ApplySetters(desc, input[2], obj, 1)]

\* ITypeSerializer<T>::Serialize(obj, output)
TypeSerialize(ser, obj, output) ==
    IF ser.fails
    THEN [ok |-> FALSE, output |-> output]
    ELSE [ok |-> TRUE, output |-> <<ser.impl, obj>>]

\* ITypeSerializer<T>::Deserialize(input, obj)
TypeDeserialize(ser, input, obj) ==
    IF ser.fails \/ Len(input) # 2 \/ input[1] # ser.impl
    THEN [ok |-> FALSE, obj |-> obj]
    ELSE [ok |-> TRUE, obj |-> input[2]]

----------------------------------------------------------------------------
(* SerializerRegistry                                                      *)

MakeTypeSerializerKey(T, serializer_name) == TypeIdName(T) \o ":" \o serializer_name

GetSerializer(name) ==
    IF MapHas(serializers_, name) THEN serializers_[name] ELSE NULL

\* the dynamic_cast to TypeSerializerWrapper<T> succeeds when the wrapper found
\* under the key was made for T
GetTypeSerializer(T, serializer_name) ==
    LET key == MakeTypeSerializerKey(T, serializer_name)
    IN  IF MapHas(type_serializers_, key)
        THEN LET wrapper == type_serializers_[key]
             IN  IF wrapper.T = T THEN wrapper.serializer_ ELSE NULL
        ELSE NULL

HasTypeSerializer(T, serializer_name) ==
    MapHas(type_serializers_, MakeTypeSerializerKey(T, serializer_name))

SR_RegisterSerializer(name, serializer) ==
    /\ serializers_' = MapPut(serializers_, name, serializer)
    /\ sr_last' = Record(sr_last, name, serializer)
    /\ ret' = [op |-> "SR.RegisterSerializer", name |-> name, serializer |-> serializer]
    /\ UNCHANGED <<type_serializers_, srt_last, trVars, rrVars, envVars>>

SR_RegisterTypeSerializer(T, serializer_name, serializer) ==
    LET key == MakeTypeSerializerKey(T, serializer_name)
    IN  /\ type_serializers_' =
              MapPut(type_serializers_, key, [T |-> T, serializer_ |-> serializer])
        /\ srt_last' = Record(srt_last, <<T, serializer_name>>, serializer)
        /\ ret' = [op |-> "SR.RegisterTypeSerializer", T |-> T, name |-> serializer_name,
                   serializer |-> serializer]
        /\ UNCHANGED <<serializers_, sr_last, trVars, rrVars, envVars>>

SR_GetSerializer(name) ==
    /\ ret' = [op |-> "SR.GetSerializer", name |-> name, val |-> GetSerializer(name)]
    /\ UNCHANGED <<trVars, rrVars, srVars, envVars>>

SR_GetTypeSerializer(T, serializer_name) ==
    /\ ret' = [op |-> "SR.GetTypeSerializer", T |-> T, name |-> serializer_name,
               val |-> GetTypeSerializer(T, serializer_name)]
    /\ UNCHANGED <<trVars, rrVars, srVars, envVars>>

SR_HasTypeSerializer(T, serializer_name) ==
    /\ ret' = [op |-> "SR.HasTypeSerializer", T |-> T, name |-> serializer_name,
               val |-> HasTypeSerializer(T, serializer_name)]
    /\ UNCHANGED <<trVars, rrVars, srVars, envVars>>

\* a variant that forgets the type-specific map
SR_Clear_GenericOnly ==
    /\ serializers_' = EmptyMap
    /\ sr_last' = EmptyMap
    /\ srt_last' = EmptyMap
    /\ ret' = [op |-> "SR.Clear", wiped |-> RegistryKeys(serializers_, type_serializers_)]
    /\ UNCHANGED <<type_serializers_, trVars, rrVars, envVars>>

SR_Clear ==
    /\ serializers_' = EmptyMap
    /\ type_serializers_' = EmptyMap
    /\ sr_last' = EmptyMap
    /\ srt_last' = EmptyMap
    /\ ret' = [op |-> "SR.Clear", wiped |-> RegistryKeys(serializers_, type_serializers_)]
    /\ UNCHANGED <<trVars, rrVars, envVars>>

----------------------------------------------------------------------------
(* SerializerFactory                                                       *)

\* a variant that names the class as the registration macro does
GetDemangled_Stringized(T) == Stringized(T)

\* a variant that asks the Type Name Registry for the name of the class first
GetDemangled_Registered(T) ==
    IF MapHas(type_names_, TypeIdName(T))
    THEN type_names_[TypeIdName(T)]
    ELSE DemangleTypeName(TypeIdName(T))

\* SerializerFactory::GetDemangled<T>()
GetDemangled(T) ==
    CASE TypeIdName(T) = "10TestClass1" -> "TestClass1"
      [] TypeIdName(T) = "10TestClass2" -> "TestClass2"
      [] TypeIdName(T) = "N6nested11NestedClassE" -> "nested::NestedClass"
      [] TypeIdName(T) = "N12_GLOBAL__N_15LocalE" -> "(anonymous namespace)::Local"
      [] OTHER -> TypeIdName(T)

\* a variant that empties the output string before it resolves
SerializeFallback_ClearFirst(T, obj, serializer_name, output) ==
    LET generic_serializer == GetSerializer(serializer_name)
        lookup == [call |-> "GetSerializer", name |-> serializer_name]
    IN  IF generic_serializer # NULL
        THEN LET type_name == GetDemangled(T)
                 descriptor == GetDescriptor(type_name)
                 find == [call |-> "GetDescriptor", name |-> type_name]
             IN  IF descriptor # NULL
                 THEN LET r == GenericSerialize(generic_serializer, obj, descriptor, <<>>)
                      IN  [result |-> r.ok, output |-> r.output,
                           trace |-> <<lookup, find,
                                       [call |-> "ISerializer.Serialize",
                                        ser |-> generic_serializer, desc |-> descriptor]>>]
                 ELSE [result |-> FALSE, output |-> <<>>, trace |-> <<lookup, find>>]
        ELSE [result |-> FALSE, output |-> <<>>, trace |-> <<lookup>>]

\* SerializerFactory::Serialize, "Fall back to generic serializer": the
\* generic serializer is looked up first and then the descriptor, under the
\* demangled name of T.  trace lists the registry lookups and the serializer
\* calls made, in order.
SerializeFallback(T, obj, serializer_name, output) ==
    LET generic_serializer == GetSerializer(serializer_name)
        lookup == [call |-> "GetSerializer", name |-> serializer_name]
    IN  IF generic_serializer # NULL
        THEN LET type_name == GetDemangled(T)
                 descriptor == GetDescriptor(type_name)
                 find == [call |-> "GetDescriptor", name |-> type_name]
             IN  IF descriptor # NULL
                 THEN LET r == GenericSerialize(generic_serializer, obj, descriptor, output)
                      IN  [result |-> r.ok, output |-> r.output,
                           trace |-> <<lookup, find,
                                       [call |-> "ISerializer.Serialize",
                                        ser |-> generic_serializer, desc |-> descriptor]>>]
                 ELSE [result |-> FALSE, output |-> output, trace |-> <<lookup, find>>]
        ELSE [result |-> FALSE, output |-> output, trace |-> <<lookup>>]

\* a variant that prefers the generic path when it is complete
FactorySerialize_GenericFirst(T, obj, serializer_name, output) ==
    LET type_serializer == GetTypeSerializer(T, serializer_name)
        probe == [call |-> "GetTypeSerializer", T |-> T, name |-> serializer_name]
        g == SerializeFallback(T, obj, serializer_name, output)
    IN  IF Len(g.trace) = 3 \/ type_serializer = NULL
        THEN [g EXCEPT !.trace = <<probe>> \o @]
        ELSE LET r == TypeSerialize(type_serializer, obj, output)
             IN  [result |-> r.ok, output |-> r.output,
                  trace |-> <<probe, [call |-> "ITypeSerializer.Serialize",
                                      ser |-> type_serializer]>>]

\* SerializerFactory::Serialize<T>(obj, serializer_name, output)
FactorySerialize(T, obj, serializer_name, output) ==
    LET type_serializer == GetTypeSerializer(T, serializer_name)
        probe == [call |-> "GetTypeSerializer", T |-> T, name |-> serializer_name]
    IN  IF type_serializer # NULL
        THEN LET r == TypeSerialize(type_serializer, obj, output)
             IN  [result |-> r.ok, output |-> r.output,
                  trace |-> <<probe, [call |-> "ITypeSerializer.Serialize",
                                      ser |-> type_serializer]>>]
        ELSE LET g == SerializeFallback(T, obj, serializer_name, output)
             IN  [g EXCEPT !.trace = <<probe>> \o @]

\* a variant that looks the descriptor up under the name the macro registers
DeserializeFallback_Stringized(T, input, obj, serializer_name) ==
    LET generic_serializer == GetSerializer(serializer_name)
        lookup == [call |-> "GetSerializer", name |-> serializer_name]
    IN  IF generic_serializer # NULL
        THEN LET type_name == Stringized(T)
                 descriptor == GetDescriptor(type_name)
                 find == [call |-> "GetDescriptor", name |-> type_name]
             IN  IF descriptor # NULL
                 THEN LET r == GenericDeserialize(generic_serializer, input, obj, descriptor)
                      IN  [result |-> r.ok, obj |-> r.obj,
                           trace |-> <<lookup, find,
                                       [call |-> "ISerializer.Deserialize",
                                        ser |-> generic_serializer, desc |-> descriptor]>>]
                 ELSE [result |-> FALSE, obj |-> obj, trace |-> <<lookup, find>>]
        ELSE [result |-> FALSE, obj |-> obj, trace |-> <<lookup>>]

\* SerializerFactory::Deserialize, "Fall back to generic serializer"
DeserializeFallback(T, input, obj, serializer_name) ==
    LET generic_serializer == GetSerializer(serializer_name)
        lookup == [call |-> "GetSerializer", name |-> serializer_name]
    IN  IF generic_serializer # NULL
        THEN LET type_name == GetDemangled(T)
                 descriptor == GetDescriptor(type_name)
                 find == [call |-> "GetDescriptor", name |-> type_name]
             IN  IF descriptor # NULL
                 THEN LET r == GenericDeserialize(generic_serializer, input, obj, descriptor)
                      IN  [result |-> r.ok, obj |-> r.obj,
                           trace |-> <<lookup, find,
                                       [call |-> "ISerializer.Deserialize",
                                        ser |-> generic_serializer, desc |-> descriptor]>>]
                 ELSE [result |-> FALSE, obj |-> obj, trace |-> <<lookup, find>>]
        ELSE [result |-> FALSE, obj |-> obj, trace |-> <<lookup>>]

\* a variant that falls through to the generic path when the type-specific
\* serializer reports failure
FactoryDeserialize_FallThrough(T, input, obj, serializer_name) ==
    LET type_serializer == GetTypeSerializer(T, serializer_name)
        probe == [call |-> "GetTypeSerializer", T |-> T, name |-> serializer_name]
        tried == [call |-> "ITypeSerializer.Deserialize", ser |-> type_serializer]
        g == DeserializeFallback(T, input, obj, serializer_name)
    IN  IF type_serializer = NULL
        THEN [g EXCEPT !.trace = <<probe>> \o @]
        ELSE LET r == TypeDeserialize(type_serializer, input, obj)
             IN  IF r.ok
                 THEN [result |-> r.ok, obj |-> r.obj, trace |-> <<probe, tried>>]
                 ELSE [g EXCEPT !.trace = <<probe, tried>> \o @]

\* SerializerFactory::Deserialize<T>(input, obj, serializer_name)
FactoryDeserialize(T, input, obj, serializer_name) ==
    LET type_serializer == GetTypeSerializer(T, serializer_name)
        probe == [call |-> "GetTypeSerializer", T |-> T, name |-> serializer_name]
    IN  IF type_serializer # NULL
        THEN LET r == TypeDeserialize(type_serializer, input, obj)
             IN  [result |-> r.ok, obj |-> r.obj,
                  trace |-> <<probe, [call |-> "ITypeSerializer.Deserialize",
                                      ser |-> type_serializer]>>]
        ELSE LET g == DeserializeFallback(T, input, obj, serializer_name)
             IN  [g EXCEPT !.trace = <<probe>> \o @]

F_Serialize(T, obj, serializer_name, output) ==
    LET r == FactorySerialize(T, obj, serializer_name, output)
    IN  /\ ret' = [op |-> "F.Serialize", T |-> T, name |-> serializer_name, obj |-> obj,
                   output0 |-> output, result |-> r.result, output |-> r.output,
                   trace |-> r.trace]
        /\ UNCHANGED <<trVars, rrVars, srVars, envVars>>

F_Deserialize(T, input, obj, serializer_name) ==
    LET r == FactoryDeserialize(T, input, obj, serializer_name)
    IN  /\ ret' = [op |-> "F.Deserialize", T |-> T, name |-> serializer_name, input |-> input,
                   obj0 |-> obj, result |-> r.result, obj |-> r.obj, trace |-> r.trace]
        /\ UNCHANGED <<trVars, rrVars, srVars, envVars>>

\* a caller that hands the output string of the Serialize call that has just
\* returned to Deserialize, for the same class and format, with obj as the
\* instance to fill
F_DeserializeOutput(obj) ==
    /\ ret.op = "F.Serialize"
    /\ LET r == FactoryDeserialize(ret.T, ret.output, obj, ret.name)
       IN  ret' = [op |-> "F.Deserialize", T |-> ret.T, name |-> ret.name,
                   input |-> ret.output, obj0 |-> obj, result |-> r.result,
                   obj |-> r.obj, trace |-> r.trace, from |-> ret]
    /\ UNCHANGED <<trVars, rrVars, srVars, envVars>>

----------------------------------------------------------------------------
(* Caller threads: every public operation holds std::lock_guard on the     *)
(* registry's mutex_ from its first statement to its return                *)

Threads == {"t1", "t2"}
Registries == {"TypeRegistry", "ReflectionRegistry", "SerializerRegistry"}

Idle == [at |-> "idle"]

TROps == {"TR.RegisterType", "TR.GetTypeName", "TR.HasTypeName", "TR.Clear"}
RROps == {"RR.RegisterType", "RR.GetDescriptor", "RR.Clear"}
SROps == {"SR.RegisterSerializer", "SR.RegisterTypeSerializer", "SR.GetSerializer",
          "SR.GetTypeSerializer", "SR.Clear"}
FOps == {"F.Serialize", "F.Deserialize"}

\* the registry whose member function a thread is in
RegistryOf(stage) ==
    IF stage \in TROps THEN "TypeRegistry"
    ELSE IF stage \in RROps THEN "ReflectionRegistry"
    ELSE "SerializerRegistry"

\* the first statement of a member function after its lock_guard
FirstStep(stage) ==
    CASE stage = "TR.RegisterType" -> "TR.forward"
      [] stage \in {"TR.GetTypeName", "TR.HasTypeName"} -> "TR.read"
      [] stage = "TR.Clear" -> "TR.clear_forward"
      [] stage = "RR.RegisterType" -> "RR.write"
      [] stage = "RR.GetDescriptor" -> "RR.read"
      [] stage = "RR.Clear" -> "RR.clear"
      [] stage \in {"SR.RegisterSerializer", "SR.RegisterTypeSerializer"} -> "SR.write"
      [] stage \in {"SR.GetSerializer", "SR.GetTypeSerializer"} -> "SR.read"
      [] stage = "SR.Clear" -> "SR.clear_generic"

\* the arguments of the member function a thread is in: those of its call,
\* or, inside a Factory call, what the Factory passes to the lookup
Arg(p) ==
    IF p.call.op \in FOps
    THEN [T |-> p.call.T, name |-> p.call.name, type_name |-> GetDemangled(p.call.T)]
    ELSE p.call

\* a std::string and a bool handed back by a member function
Str(s) == [string |-> s]
Bool(b) == [bool |-> b]

\* a variant in which the mutex excludes nobody
CanLock_Always(m, registry) == TRUE

\* std::lock_guard<std::mutex> lock(mutex_) returns once no thread holds
\* mutex_ (a thread that holds it itself never gets it)
CanLock(m, registry) == m[registry] = ""

\* a variant that leaves the mutex locked
Release_Keep(m, registry) == m

\* ~lock_guard at the return of the member function
Release(m, registry) == [m EXCEPT ![registry] = ""]

\* the call c applied whole to the maps l
Lin(l, c) ==
    CASE c.op = "TR.RegisterType" ->
            LET type_id == TypeIdName(c.T)
                type_name == RegisteredName(type_id, c.custom_name)
            IN  [l EXCEPT !.type_names_ = MapPut(@, type_id, type_name),
                          !.name_to_type_id_ = MapPut(@, type_name, type_id)]
      [] c.op = "TR.Clear" ->
            [l EXCEPT !.type_names_ = EmptyMap, !.name_to_type_id_ = EmptyMap]
      [] c.op = "RR.RegisterType" ->
            [l EXCEPT !.descriptors_ = MapPut(@, c.type_name, c.descriptor)]
      [] c.op = "RR.Clear" -> [l EXCEPT !.descriptors_ = EmptyMap]
      [] OTHER -> l

\* the answer of the call c over the maps l
LinVal(l, c) ==
    CASE c.op = "TR.GetTypeName" ->
            IF MapHas(l.type_names_, TypeIdName(c.T))
            THEN Str(l.type_names_[TypeIdName(c.T)]) ELSE Str("")
      [] c.op = "TR.HasTypeName" -> Bool(MapHas(l.name_to_type_id_, c.type_name))
      [] c.op = "RR.GetDescriptor" ->
            IF MapHas(l.descriptors_, c.type_name)
            THEN l.descriptors_[c.type_name] ELSE NULL
      [] OTHER -> NULL

\* the threads inside a Factory call that hold the pointer GetSerializer
\* returned for one of the names: from the return of that lookup to the end of
\* the serializer call
GenericHolders(names) ==
    {u \in Threads :
        /\ pc[u] # Idle
        /\ pc[u].call.op \in FOps
        /\ pc[u].stage = "RR.GetDescriptor"
        /\ pc[u].call.name \in names}

\* ... the pointer GetTypeSerializer<T> returned under one of the keys
TypedHolders(keys) ==
    {u \in Threads :
        /\ pc[u] # Idle
        /\ pc[u].call.op \in FOps
        /\ pc[u].at = "call"
        /\ pc[u].stage = "SR.GetTypeSerializer"
        /\ MakeTypeSerializerKey(pc[u].call.T, pc[u].call.name) \in keys}

\* ... the pointer GetDescriptor returned under one of the names
DescriptorHolders(names) ==
    {u \in Threads :
        /\ pc[u] # Idle
        /\ pc[u].call.op \in FOps
        /\ pc[u].at = "call"
        /\ pc[u].stage = "RR.GetDescriptor"
        /\ GetDemangled(pc[u].call.T) \in names}

\* a thread calls a public operation; val is <<>> until the member function
\* has computed what it returns and <<value>> from then on
Th_Call(t, c) ==
    /\ pc[t] = Idle
    /\ pc' = [pc EXCEPT ![t] =
                 [at |-> "lock", call |-> c, val |-> <<>>, ser |-> NULL,
                  stage |-> IF c.op \in FOps THEN "SR.GetTypeSerializer" ELSE c.op]]
    /\ UNCHANGED <<trVars, rrVars, srVars, mdVars, suVars, ret, mutex, lin, lin_val, stale>>

\* std::lock_guard<std::mutex> lock(mutex_)
Th_Lock(t) ==
    LET p == pc[t]
        r == RegistryOf(p.stage)
    IN  /\ p.at = "lock"
        /\ CanLock(mutex, r)
        /\ mutex' = [mutex EXCEPT ![r] = t]
        /\ pc' = [pc EXCEPT ![t].at = FirstStep(p.stage)]
        /\ lin' = Lin(lin, p.call)
        /\ lin_val' = [lin_val EXCEPT ![t] = <<LinVal(lin, p.call)>>]
        /\ UNCHANGED <<trVars, rrVars, srVars, mdVars, suVars, ret, stale>>

\* one statement of a TypeRegistry member function
Th_TypeRegistry(t) ==
    LET p == pc[t]
        a == Arg(p)
    IN  /\ p.at \in {"TR.forward", "TR.reverse", "TR.read", "TR.clear_forward",
                      "TR.clear_reverse"}
        /\ CASE p.at = "TR.forward" ->
                  /\ type_names_' =
                        MapPut(type_names_, TypeIdName(a.T),
                               RegisteredName(TypeIdName(a.T), a.custom_name))
                  /\ tr_last' = Record(tr_last, a.T, a.custom_name)
                  /\ pc' = [pc EXCEPT ![t].at = "TR.reverse"]
                  /\ UNCHANGED name_to_type_id_
             [] p.at = "TR.reverse" ->
                  /\ name_to_type_id_' =
                        MapPut(name_to_type_id_,
                               RegisteredName(TypeIdName(a.T), a.custom_name),
                               TypeIdName(a.T))
                  /\ pc' = [pc EXCEPT ![t].at = "unlock"]
                  /\ UNCHANGED <<type_names_, tr_last>>
             [] p.at = "TR.read" ->
                  /\ pc' = [pc EXCEPT ![t].at = "unlock",
                                      ![t].val = IF p.stage = "TR.GetTypeName"
                                                 THEN <<Str(GetTypeName(a.T))>>
                                                 ELSE <<Bool(HasTypeName(a.type_name))>>]
                  /\ UNCHANGED trVars
             [] p.at = "TR.clear_forward" ->
                  /\ type_names_' = EmptyMap
                  /\ tr_last' = EmptyMap
                  /\ pc' = [pc EXCEPT ![t].at = "TR.clear_reverse"]
                  /\ UNCHANGED name_to_type_id_
             [] p.at = "TR.clear_reverse" ->
                  /\ name_to_type_id_' = EmptyMap
                  /\ pc' = [pc EXCEPT ![t].at = "unlock"]
                  /\ UNCHANGED <<type_names_, tr_last>>
        /\ UNCHANGED <<rrVars, srVars, mdVars, suVars, ret, mutex, lin, lin_val, stale>>

\* one statement of a ReflectionRegistry member function
Th_ReflectionRegistry(t) ==
    LET p == pc[t]
        a == Arg(p)
    IN  /\ p.at \in {"RR.write", "RR.read", "RR.clear"}
        /\ CASE p.at = "RR.write" ->
                  /\ descriptors_' = MapPut(descriptors_, a.type_name, a.descriptor)
                  /\ rr_last' = Record(rr_last, a.type_name, a.descriptor)
                  /\ pc' = [pc EXCEPT ![t].at = "unlock"]
                  /\ stale' = stale \cup
                        (IF MapHas(descriptors_, a.type_name)
                         THEN DescriptorHolders({a.type_name}) ELSE {})
             [] p.at = "RR.read" ->
                  /\ pc' = [pc EXCEPT ![t].at = "unlock",
                                      ![t].val = <<GetDescriptor(a.type_name)>>]
                  /\ UNCHANGED <<rrVars, stale>>
             [] p.at = "RR.clear" ->
                  /\ descriptors_' = EmptyMap
                  /\ rr_last' = EmptyMap
                  /\ pc' = [pc EXCEPT ![t].at = "unlock"]
                  /\ stale' = stale \cup DescriptorHolders(DOMAIN descriptors_)
        /\ UNCHANGED <<trVars, srVars, mdVars, suVars, ret, mutex, lin, lin_val>>

\* one statement of a SerializerRegistry member function
Th_SerializerRegistry(t) ==
    LET p == pc[t]
        a == Arg(p)
    IN  /\ p.at \in {"SR.write", "SR.read", "SR.clear_generic", "SR.clear_typed"}
        /\ CASE p.at = "SR.write" /\ p.stage = "SR.RegisterSerializer" ->
                  /\ serializers_' = MapPut(serializers_, a.name, a.serializer)
                  /\ sr_last' = Record(sr_last, a.name, a.serializer)
                  /\ pc' = [pc EXCEPT ![t].at = "unlock"]
                  /\ stale' = stale \cup
                        (IF MapHas(serializers_, a.name)
                         THEN GenericHolders({a.name}) ELSE {})
                  /\ UNCHANGED <<type_serializers_, srt_last>>
             [] p.at = "SR.write" /\ p.stage = "SR.RegisterTypeSerializer" ->
                  /\ type_serializers_' =
                        MapPut(type_serializers_, MakeTypeSerializerKey(a.T, a.name),
                               [T |-> a.T, serializer_ |-> a.serializer])
                  /\ srt_last' = Record(srt_last, <<a.T, a.name>>, a.serializer)
                  /\ pc' = [pc EXCEPT ![t].at = "unlock"]
                  /\ stale' = stale \cup
                        (IF MapHas(type_serializers_, MakeTypeSerializerKey(a.T, a.name))
                         THEN TypedHolders({MakeTypeSerializerKey(a.T, a.name)}) ELSE {})
                  /\ UNCHANGED <<serializers_, sr_last>>
             [] p.at = "SR.read" ->
                  /\ pc' = [pc EXCEPT ![t].at = "unlock",
                                      ![t].val = IF p.stage = "SR.GetSerializer"
                                                 THEN <<GetSerializer(a.name)>>
                                                 ELSE <<GetTypeSerializer(a.T, a.name)>>]
                  /\ UNCHANGED <<srVars, stale>>
             [] p.at = "SR.clear_generic" ->
                  /\ serializers_' = EmptyMap
                  /\ sr_last' = EmptyMap
                  /\ pc' = [pc EXCEPT ![t].at = "SR.clear_typed"]
                  /\ stale' = stale \cup GenericHolders(DOMAIN serializers_)
                  /\ UNCHANGED <<type_serializers_, srt_last>>
             [] p.at = "SR.clear_typed" ->
                  /\ type_serializers_' = EmptyMap
                  /\ srt_last' = EmptyMap
                  /\ pc' = [pc EXCEPT ![t].at = "unlock"]
                  /\ stale' = stale \cup TypedHolders(DOMAIN type_serializers_)
                  /\ UNCHANGED <<serializers_, sr_last>>
        /\ UNCHANGED <<trVars, rrVars, mdVars, suVars, ret, mutex, lin, lin_val>>

\* a registry operation called by the thread itself returns: ~lock_guard
Th_Return(t) ==
    LET p == pc[t]
    IN  /\ p.at = "unlock"
        /\ p.call.op \notin FOps
        /\ mutex' = Release(mutex, RegistryOf(p.stage))
        /\ pc' = [pc EXCEPT ![t] = Idle]
        /\ ret' = [op |-> p.call.op, call |-> p.call, val |-> p.val,
                   lin_val |-> lin_val[t]]
        /\ lin_val' = [lin_val EXCEPT ![t] = <<>>]
        /\ UNCHANGED <<trVars, rrVars, srVars, mdVars, suVars, lin, stale>>

\* a lookup made by SerializerFactory::Serialize / Deserialize returns to
\* the Factory, which goes on to its next lookup, to the serializer call or
\* to "return false"
Th_FactoryLookup(t) ==
    LET p == pc[t]
        found == p.val[1] # NULL
    IN  /\ p.at = "unlock"
        /\ p.call.op \in FOps
        /\ mutex' = Release(mutex, RegistryOf(p.stage))
        /\ CASE p.stage = "SR.GetTypeSerializer" /\ found ->
                  /\ pc' = [pc EXCEPT ![t] = [p EXCEPT !.at = "call", !.ser = p.val[1]]]
                  /\ UNCHANGED ret
             [] p.stage = "SR.GetTypeSerializer" /\ ~found ->
                  /\ pc' = [pc EXCEPT ![t] = [p EXCEPT !.at = "lock",
                                                      !.stage = "SR.GetSerializer"]]
                  /\ UNCHANGED ret
             [] p.stage = "SR.GetSerializer" /\ found ->
                  /\ pc' = [pc EXCEPT ![t] = [p EXCEPT !.at = "lock", !.ser = p.val[1],
                                                      !.stage = "RR.GetDescriptor"]]
                  /\ UNCHANGED ret
             [] p.stage = "RR.GetDescriptor" /\ found ->
                  /\ pc' = [pc EXCEPT ![t] = [p EXCEPT !.at = "call"]]
                  /\ UNCHANGED ret
             [] OTHER ->
                  /\ pc' = [pc EXCEPT ![t] = Idle]
                  /\ ret' = [op |-> p.call.op, call |-> p.call,
                             result |-> FALSE]
        /\ stale' = IF pc'[t] = Idle THEN stale \ {t} ELSE stale
        /\ lin_val' = [lin_val EXCEPT ![t] = <<>>]
        /\ UNCHANGED <<trVars, rrVars, srVars, mdVars, suVars, lin>>

\* the Factory calls the serializer it found, holding no mutex, and returns
\* what the serializer returns; a call through a pointer to a destroyed
\* serializer, or with a descriptor that was destroyed or assigned to, is
\* undefined behaviour and returns either value
Th_FactoryCall(t) ==
    LET p == pc[t]
        c == p.call
        r == IF p.stage = "SR.GetTypeSerializer"
             THEN IF c.op = "F.Serialize"
                  THEN TypeSerialize(p.ser, c.obj, c.output).ok
                  ELSE TypeDeserialize(p.ser, c.input, c.obj).ok
             ELSE IF c.op = "F.Serialize"
                  THEN GenericSerialize(p.ser, c.obj, p.val[1], c.output).ok
                  ELSE GenericDeserialize(p.ser, c.input, c.obj, p.val[1]).ok
    IN  /\ p.at = "call"
        /\ pc' = [pc EXCEPT ![t] = Idle]
        /\ IF t \in stale
           THEN \E b \in BOOLEAN : ret' = [op |-> c.op, call |-> c, result |-> b]
           ELSE ret' = [op |-> c.op, call |-> c, result |-> r]
        /\ stale' = stale \ {t}
        /\ UNCHANGED <<trVars, rrVars, srVars, mdVars, suVars, mutex, lin, lin_val>>

----------------------------------------------------------------------------
(* Inputs of the Factory and registry calls                                *)

\* format names
Formats == {"json", "bin"}

\* the classes serialized
FTypes == {"TestClass1", "nested::NestedClass"}

\* the caller's output string before the call
OldOutput == <<"old">>

\* the object with every member at v
ObjectAt(T, v) == [m \in {MemberOf(T)} |-> v]

\* encoded strings handed to Deserialize for T: what the working
\* implementations write for the object with every member at MaxVal, and a
\* string none of them wrote
Inputs(T) ==
    { <<"S1", ObjectAt(T, MaxVal)>>,
      <<"G1", <<<<1, MaxVal>>>>>>,
      <<"garbage", <<>>>> }

----------------------------------------------------------------------------
(* Specifications                                                          *)

\* the registries as constructed, before any call
InitRegistries ==
    /\ pc = [t \in Threads |-> Idle]
    /\ mutex = [r \in Registries |-> ""]
    /\ lin = [type_names_ |-> EmptyMap, name_to_type_id_ |-> EmptyMap,
              descriptors_ |-> EmptyMap]
    /\ lin_val = [t \in Threads |-> <<>>]
    /\ stale = {}
    /\ type_names_ = EmptyMap
    /\ name_to_type_id_ = EmptyMap
    /\ descriptors_ = EmptyMap
    /\ serializers_ = EmptyMap
    /\ type_serializers_ = EmptyMap
    /\ ret = NoCall
    /\ tr_last = EmptyMap
    /\ rr_last = EmptyMap
    /\ sr_last = EmptyMap
    /\ srt_last = EmptyMap
    /\ local_desc = [message_name |-> "", fields |-> <<>>]
    /\ added = <<>>

\* a program without static registrars
Init ==
    /\ InitRegistries
    /\ program = {}
    /\ pending = {}
    /\ created = {}

\* the Type Name Registry alone
NextTR ==
    \/ \E T \in Types, c \in CustomNames : TR_RegisterType(T, c)
    \/ \E T \in Types : TR_GetTypeName(T)
    \/ \E T \in Types : TR_IsTypeRegistered(T)
    \/ \E n \in QueryNames : TR_HasTypeName(n)
    \/ TR_GetAllTypeNames
    \/ TR_GetRegisteredTypeCount
    \/ TR_Clear

SpecTR == Init /\ [][NextTR]_vars

\* the Reflection Registry alone
RRNames == {"TestClass1", "NestedClass", "nested::NestedClass"}
RRDescriptors == {NewDescriptor(T) : T \in FTypes} \cup {FullDescriptor(T) : T \in FTypes}

NextRR ==
    \/ \E n \in RRNames, d \in RRDescriptors : RR_RegisterType(n, d)
    \/ \E n \in RRNames : RR_GetDescriptor(n)
    \/ \E n \in RRNames : RR_HasType(n)
    \/ RR_GetRegisteredTypes
    \/ RR_Clear

SpecRR == Init /\ [][NextRR]_vars

\* the Factory over the Serializer Registry and the Reflection Registry; a
\* descriptor is registered for the class it was built for, under the class's
\* demangled name
NextF ==
    \/ \E f \in Formats, s \in GenericImpls : SR_RegisterSerializer(f, s)
    \/ \E T \in FTypes, f \in Formats : \E s \in TypeImpls(T) :
          SR_RegisterTypeSerializer(T, f, s)
    \/ SR_Clear
    \/ \E T \in FTypes : RR_RegisterType(GetDemangledTypeName(T), FullDescriptor(T))
    \/ RR_Clear
    \/ \E T \in FTypes, f \in Formats : \E obj \in Objects(T) :
          F_Serialize(T, obj, f, OldOutput)
    \/ \E T \in FTypes, f \in Formats : \E input \in Inputs(T) :
          F_Deserialize(T, input, ObjectAt(T, 0), f)

SpecF == Init /\ [][NextF]_vars

\* the three registries side by side: registrations, presence checks, lookups
\* and Clear of each, with one implementation per kind
RegTypes == {"TestClass1", "nested::NestedClass"}
RegCustomNames == {"", "CustomName"}
RegFormats == {"json"}
RegNames == {RegisteredName(TypeIdName(T), c) : T \in RegTypes, c \in RegCustomNames}
WorkingGeneric == [impl |-> "G1", fails |-> FALSE]
WorkingTypeImpl(T) == [impl |-> "S1", T |-> T, fails |-> FALSE]

NextReg ==
    \/ \E T \in RegTypes, c \in RegCustomNames : TR_RegisterType(T, c)
    \/ \E T \in RegTypes : TR_GetTypeName(T)
    \/ \E T \in RegTypes : TR_IsTypeRegistered(T)
    \/ \E n \in RegNames : TR_HasTypeName(n)
    \/ TR_GetRegisteredTypeCount
    \/ TR_Clear
    \/ \E T \in RegTypes : RR_RegisterType(GetDemangledTypeName(T), FullDescriptor(T))
    \/ \E T \in RegTypes : RR_GetDescriptor(GetDemangledTypeName(T))
    \/ \E T \in RegTypes : RR_HasType(GetDemangledTypeName(T))
    \/ RR_Clear
    \/ \E f \in RegFormats : SR_RegisterSerializer(f, WorkingGeneric)
    \/ \E T \in RegTypes, f \in RegFormats : SR_RegisterTypeSerializer(T, f, WorkingTypeImpl(T))
    \/ \E f \in RegFormats : SR_GetSerializer(f)
    \/ \E T \in RegTypes, f \in RegFormats : SR_GetTypeSerializer(T, f)
    \/ \E T \in RegTypes, f \in RegFormats : SR_HasTypeSerializer(T, f)
    \/ SR_Clear

SpecReg == Init /\ [][NextReg]_vars

\* the Serializer Registry alone.  Its operations are templates over any
\* class, and the std::unique_ptr handed to a registration may be empty.
SRTypes == {"TestClass1"} \cup LocalTypes
SRSerializers(T) ==
    IF T \in LocalTypes
    THEN {s \in TypeImpls(T) : ~s.fails}
    ELSE TypeImpls(T) \cup {NULL}

NextSR ==
    \/ \E f \in Formats, s \in GenericImpls : SR_RegisterSerializer(f, s)
    \/ \E T \in SRTypes, f \in Formats : \E s \in SRSerializers(T) :
          SR_RegisterTypeSerializer(T, f, s)
    \/ \E f \in Formats : SR_GetSerializer(f)
    \/ \E T \in SRTypes, f \in Formats : SR_GetTypeSerializer(T, f)
    \/ \E T \in SRTypes, f \in Formats : SR_HasTypeSerializer(T, f)
    \/ SR_Clear

SpecSR == Init /\ [][NextSR]_vars

\* one MessageDescriptor under construction for a class, with the field names
\* and numbers a registration site may write
FieldNames == {"value", "data"}
FieldNumbers == {1, 2}
MDType == "TestClass1"

NextMD ==
    \/ MD_Begin(MDType)
    \/ \E n \in FieldNames, k \in FieldNumbers :
          MD_AddField(HandField(n, FieldTypeOf(MDType), k))
    \/ \E n \in FieldNames, k \in FieldNumbers :
          MD_AddFieldToDescriptor(MDType, n, FieldTypeOf(MDType), k, MemberOf(MDType))
    \/ \E n \in FieldNames \cup {"missing"} : MD_GetField(n)
    \/ \E k \in FieldNumbers \cup {0} : MD_GetFieldByNumber(k)

SpecMD == Init /\ [][NextMD]_vars

\* static initialization of a program: the registrar objects of its
\* translation units are constructed in an order the language leaves open
SUTypes == {"TestClass1", "nested::NestedClass"}
TypeRegistrars ==
    {[macro |-> "REGISTER_TYPE", T |-> T, custom_name |-> ""] : T \in SUTypes}
      \cup {[macro |-> "REGISTER_TYPE_WITH_NAME", T |-> T, custom_name |-> "CustomName"] :
                T \in SUTypes}
ReflectionRegistrars == {[macro |-> "GRLRPC_REGISTER_TYPE", T |-> T] : T \in SUTypes}

\* the name a registrar registers its class under
RegistrarName(r) ==
    IF r \in TypeRegistrars
    THEN RegisteredName(TypeIdName(r.T), r.custom_name)
    ELSE Stringized(r.T)

\* programs that register distinct types under distinct names
Programs ==
    {p \in SUBSET (TypeRegistrars \cup ReflectionRegistrars) :
        \A a, b \in p :
            (a # b /\ a.macro \in {"REGISTER_TYPE", "REGISTER_TYPE_WITH_NAME"}
                  /\ b.macro \in {"REGISTER_TYPE", "REGISTER_TYPE_WITH_NAME"}) =>
                (a.T # b.T /\ RegistrarName(a) # RegistrarName(b))}

InitSU ==
    /\ InitRegistries
    /\ program \in Programs
    /\ pending = program
    /\ created = {}

NextSU ==
    \/ \E r \in TypeRegistrars : SU_RegisterType(r)
    \/ \E r \in ReflectionRegistrars : SU_RegisterReflection(r)

SpecSU == InitSU /\ [][NextSU]_vars

\* a program whose descriptors come from the static registrars, with a
\* working generic serializer registered and Serialize called at run time
NextGen ==
    \/ \E r \in TypeRegistrars : SU_RegisterType(r)
    \/ \E r \in ReflectionRegistrars : SU_RegisterReflection(r)
    \/ \E f \in RegFormats : SR_RegisterSerializer(f, WorkingGeneric)
    \/ \E T \in SUTypes, f \in RegFormats : \E obj \in Objects(T) :
          F_Serialize(T, obj, f, OldOutput)

SpecGen == InitSU /\ [][NextGen]_vars

\* Serialize followed by Deserialize of its output, over registries that hold
\* working and failing serializers and descriptors with and without fields
NextRT ==
    \/ \E f \in RegFormats, s \in GenericImpls : SR_RegisterSerializer(f, s)
    \/ \E T \in FTypes, f \in RegFormats : \E s \in TypeImpls(T) :
          SR_RegisterTypeSerializer(T, f, s)
    \/ \E T \in FTypes : \E d \in {NewDescriptor(T), FullDescriptor(T)} :
          RR_RegisterType(GetDemangledTypeName(T), d)
    \/ \E T \in FTypes, f \in RegFormats : \E obj \in Objects(T) :
          F_Serialize(T, obj, f, OldOutput)
    \/ /\ ret.op = "F.Serialize"
       /\ \E obj \in Objects(ret.T) : F_DeserializeOutput(obj)

SpecRT == Init /\ [][NextRT]_vars

\* two threads calling the Type Name Registry and the Reflection Registry:
\* registrations of one type under two names and of two types under one name,
\* of two descriptors under one name, lookups and Clear of the Type Name
\* Registry
ConcCalls ==
    {[op |-> "TR.RegisterType", T |-> "TestClass1", custom_name |-> ""],
     [op |-> "TR.RegisterType", T |-> "TestClass2", custom_name |-> ""],
     [op |-> "TR.RegisterType", T |-> "TestClass2", custom_name |-> "TestClass1"],
     [op |-> "TR.GetTypeName", T |-> "TestClass2"],
     [op |-> "TR.HasTypeName", type_name |-> "TestClass1"],
     [op |-> "TR.Clear"],
     [op |-> "RR.RegisterType", type_name |-> "TestClass1",
      descriptor |-> NewDescriptor("TestClass1")],
     [op |-> "RR.RegisterType", type_name |-> "TestClass1",
      descriptor |-> FullDescriptor("TestClass1")],
     [op |-> "RR.GetDescriptor", type_name |-> "TestClass1"]}

NextConc ==
    \/ \E t \in Threads, c \in ConcCalls : Th_Call(t, c)
    \/ \E t \in Threads : Th_Lock(t)
    \/ \E t \in Threads : Th_TypeRegistry(t)
    \/ \E t \in Threads : Th_ReflectionRegistry(t)
    \/ \E t \in Threads : Th_Return(t)

SpecConc == Init /\ [][NextConc]_vars

\* two threads calling the Serializer Registry, the Reflection Registry, the
\* Type Name Registry and the Factory
LiveCalls ==
    {[op |-> "SR.RegisterSerializer", name |-> "json", serializer |-> WorkingGeneric],
     [op |-> "SR.RegisterTypeSerializer", T |-> "TestClass1", name |-> "json",
      serializer |-> WorkingTypeImpl("TestClass1")],
     [op |-> "SR.Clear"],
     [op |-> "RR.RegisterType", type_name |-> "TestClass1",
      descriptor |-> FullDescriptor("TestClass1")],
     [op |-> "RR.Clear"],
     [op |-> "TR.GetTypeName", T |-> "TestClass1"],
     [op |-> "F.Serialize", T |-> "TestClass1", name |-> "json",
      obj |-> ObjectAt("TestClass1", MaxVal), output |-> OldOutput],
     [op |-> "F.Deserialize", T |-> "TestClass1", name |-> "json",
      input |-> <<"G1", <<<<1, MaxVal>>>>>>, obj |-> ObjectAt("TestClass1", 0)]}

\* every step of a thread inside a call
Th_Progress(t) ==
    \/ Th_Lock(t)
    \/ Th_TypeRegistry(t)
    \/ Th_ReflectionRegistry(t)
    \/ Th_SerializerRegistry(t)
    \/ Th_Return(t)
    \/ Th_FactoryLookup(t)
    \/ Th_FactoryCall(t)

NextLive ==
    \/ \E t \in Threads, c \in LiveCalls : Th_Call(t, c)
    \/ \E t \in Threads : Th_Lock(t)
    \/ \E t \in Threads : Th_TypeRegistry(t)
    \/ \E t \in Threads : Th_ReflectionRegistry(t)
    \/ \E t \in Threads : Th_SerializerRegistry(t)
    \/ \E t \in Threads : Th_Return(t)
    \/ \E t \in Threads : Th_FactoryLookup(t)
    \/ \E t \in Threads : Th_FactoryCall(t)

\* fair scheduling: a thread inside a call that can take a step takes one,
\* the serializer it calls returns, and a thread waiting for a mutex that
\* keeps being released gets it
SpecLive ==
    /\ Init
    /\ [][NextLive]_vars
    /\ \A t \in Threads : WF_vars(Th_Progress(t)) /\ SF_vars(Th_Lock(t))

\* one Factory call racing with registrations under the keys it resolves
HandleCalls ==
    {c \in LiveCalls :
        c.op \in FOps \cup {"SR.RegisterSerializer", "SR.RegisterTypeSerializer",
                            "RR.RegisterType"}}

NextHandle ==
    \/ \E t \in Threads, c \in HandleCalls : Th_Call(t, c)
    \/ \E t \in Threads : Th_Lock(t)
    \/ \E t \in Threads : Th_ReflectionRegistry(t)
    \/ \E t \in Threads : Th_SerializerRegistry(t)
    \/ \E t \in Threads : Th_Return(t)
    \/ \E t \in Threads : Th_FactoryLookup(t)
    \/ \E t \in Threads : Th_FactoryCall(t)

SpecHandle == Init /\ [][NextHandle]_vars

\* the three registries side by side with every registration, Clear and query
\* of each
NextFrame ==
    \/ \E T \in RegTypes, c \in RegCustomNames : TR_RegisterType(T, c)
    \/ \E T \in RegTypes : TR_GetTypeName(T)
    \/ \E T \in RegTypes : TR_IsTypeRegistered(T)
    \/ \E n \in RegNames : TR_HasTypeName(n)
    \/ TR_GetAllTypeNames
    \/ TR_GetRegisteredTypeCount
    \/ TR_Clear
    \/ \E T \in RegTypes : RR_RegisterType(GetDemangledTypeName(T), FullDescriptor(T))
    \/ \E T \in RegTypes : RR_GetDescriptor(GetDemangledTypeName(T))
    \/ \E T \in RegTypes : RR_HasType(GetDemangledTypeName(T))
    \/ RR_GetRegisteredTypes
    \/ RR_Clear
    \/ \E f \in RegFormats : SR_RegisterSerializer(f, WorkingGeneric)
    \/ \E T \in RegTypes, f \in RegFormats : SR_RegisterTypeSerializer(T, f, WorkingTypeImpl(T))
    \/ \E f \in RegFormats : SR_GetSerializer(f)
    \/ \E T \in RegTypes, f \in RegFormats : SR_GetTypeSerializer(T, f)
    \/ \E T \in RegTypes, f \in RegFormats : SR_HasTypeSerializer(T, f)
    \/ SR_Clear

SpecFrame == Init /\ [][NextFrame]_vars

\* Factory calls over registries filled in any order, with the classes also
\* registered, or not, in the Type Name Registry under their demangled or a
\* custom name
NextNames ==
    \/ \E T \in RegTypes, c \in RegCustomNames : TR_RegisterType(T, c)
    \/ TR_Clear
    \/ \E T \in RegTypes : RR_RegisterType(GetDemangledTypeName(T), FullDescriptor(T))
    \/ \E f \in RegFormats : SR_RegisterSerializer(f, WorkingGeneric)
    \/ \E T \in RegTypes, f \in RegFormats : SR_RegisterTypeSerializer(T, f, WorkingTypeImpl(T))
    \/ \E T \in RegTypes, f \in RegFormats : \E obj \in Objects(T) :
          F_Serialize(T, obj, f, OldOutput)
    \/ \E T \in RegTypes, f \in RegFormats : \E input \in Inputs(T) :
          F_Deserialize(T, input, ObjectAt(T, 0), f)

SpecNames == Init /\ [][NextNames]_vars

----------------------------------------------------------------------------
(* Claims about the Type Name Registry (checked under SpecTR)              *)

\* the name a registration is expected to give a type: the supplied custom
\* name, otherwise the type's demangled (qualified) name, which is how the
\* classes of Types are written
ExpectedName(T, custom_name) == IF custom_name = "" THEN T ELSE custom_name

\* the types registered since the last Clear, by the history
RegisteredTypes == DOMAIN tr_last

C6_NameInv ==
    /\ \A T \in RegisteredTypes :
          /\ GetTypeName(T) = ExpectedName(T, tr_last[T])
          /\ HasTypeName(ExpectedName(T, tr_last[T]))
    /\ ret.op = "TR.RegisterType" =>
          /\ GetTypeName(ret.T) = ExpectedName(ret.T, ret.custom_name)
          /\ HasTypeName(ExpectedName(ret.T, ret.custom_name))
    /\ (ret.op = "TR.GetTypeName" /\ ret.T \in RegisteredTypes) =>
          ret.val = ExpectedName(ret.T, tr_last[ret.T])

\* C6 (step part): registering a type that is already registered leaves
\* count() as it was.
C6_CountStep ==
    \A T \in Types :
        (IsTypeRegistered(T) /\ ret'.op = "TR.RegisterType" /\ ret'.T = T)
            => GetRegisteredTypeCount' = GetRegisteredTypeCount

\* C6: registered name, last write wins, count() does not grow on a repeated
\* registration.
C6_RegisteredName == [](C6_NameInv) /\ [][C6_CountStep]_vars

\* a type was registered again under a custom name: its earlier name is still
\* a key of the reverse map
C6_Witness ==
    /\ ret.op = "TR.RegisterType"
    /\ ret.custom_name = "CustomName"
    /\ GetTypeName(ret.T) = "CustomName"
    /\ \E n \in DOMAIN name_to_type_id_ :
          n # "CustomName" /\ name_to_type_id_[n] = TypeIdName(ret.T)

\* C8: count() is the number of distinct types registered since the last
\* clear, and all_names() has exactly count() entries, one per registered type,
\* each that type's current name.
C8_CountAndNames ==
    /\ GetRegisteredTypeCount = Cardinality(RegisteredTypes)
    /\ BagCardinality(GetAllTypeNames) = GetRegisteredTypeCount
    /\ \A n \in QueryNames :
          CopiesIn(n, GetAllTypeNames)
            = Cardinality({T \in RegisteredTypes : ExpectedName(T, tr_last[T]) = n})
    /\ BagToSet(GetAllTypeNames) \subseteq QueryNames
    /\ ret.op = "TR.GetRegisteredTypeCount" => ret.val = Cardinality(RegisteredTypes)
    /\ ret.op = "TR.GetAllTypeNames" => BagCardinality(ret.val) = Cardinality(RegisteredTypes)

\* all_names() was returned while two types carry the same name
C8_Witness ==
    /\ ret.op = "TR.GetAllTypeNames"
    /\ \E n \in QueryNames : CopiesIn(n, ret.val) = 2
    /\ GetRegisteredTypeCount = 3

\* C9: the registry is a bidirectional mapping: has_name(n) is true exactly
\* when n is the current name of some registered type and the reverse map
\* gives that type for n.
C9_Bidirectional ==
    \A n \in QueryNames :
        HasTypeName(n) <=>
            \E t \in DOMAIN type_names_ :
                type_names_[t] = n /\ name_to_type_id_[n] = t

----------------------------------------------------------------------------
(* Claims about the Serializer Factory (checked under SpecF)               *)

FactoryOps == {"F.Serialize", "F.Deserialize"}

\* by the histories: what is registered for a Factory call on (T, f)
SpecializedFor(T, f) == <<T, f>> \in DOMAIN srt_last
GenericFor(f) == f \in DOMAIN sr_last
\* a descriptor for T is registered under T's demangled (qualified) name
DescriptorFor(T) == T \in DOMAIN rr_last

Calls(trace) == {trace[i].call : i \in 1..Len(trace)}
GenericCalls == {"ISerializer.Serialize", "ISerializer.Deserialize"}
TypeCalls == {"ITypeSerializer.Serialize", "ITypeSerializer.Deserialize"}
NoSerializerCalled(trace) == Calls(trace) \cap (GenericCalls \cup TypeCalls) = {}

\* what the type-specific serializer s answers when called directly with the
\* arguments of the Factory call in ret
DirectTypeCall(s) ==
    IF ret.op = "F.Serialize"
    THEN LET r == TypeSerialize(s, ret.obj, ret.output0)
         IN  [result |-> r.ok, value |-> r.output]
    ELSE LET r == TypeDeserialize(s, ret.input, ret.obj0)
         IN  [result |-> r.ok, value |-> r.obj]

\* what the Factory call in ret handed back
Returned ==
    [result |-> ret.result,
     value |-> IF ret.op = "F.Serialize" THEN ret.output ELSE ret.obj]

\* C1: when a specialized serializer is registered for (T, f), serialize and
\* deserialize delegate to exactly it: it is the only serializer called, no
\* generic serializer is called and the Reflection Registry is not consulted,
\* whether or not a generic serializer and a descriptor are registered; a
\* working specialized serializer makes serialize succeed.
C1_Precedence ==
    (ret.op \in FactoryOps /\ SpecializedFor(ret.T, ret.name)) =>
        LET s == srt_last[<<ret.T, ret.name>>]
            n == Len(ret.trace)
        IN  /\ ret.trace[n].call \in TypeCalls
            /\ ret.trace[n].ser = s
            /\ Cardinality({i \in 1..n : ret.trace[i].call \in TypeCalls}) = 1
            /\ Calls(ret.trace) \cap GenericCalls = {}
            /\ "GetDescriptor" \notin Calls(ret.trace)
            /\ Returned = DirectTypeCall(s)
            /\ (ret.op = "F.Serialize" /\ ~s.fails) => ret.result

\* serialize used the specialized serializer although the generic path for the
\* same class and format was complete
C1_Witness ==
    /\ ret.op = "F.Serialize"
    /\ SpecializedFor(ret.T, ret.name)
    /\ GenericFor(ret.name) /\ ~sr_last[ret.name].fails
    /\ DescriptorFor(ret.T)
    /\ ret.result
    /\ ret.output = <<"S1", ret.obj>>

\* C2: with no specialized serializer for (T, f), a generic serializer for f
\* and a descriptor for T, serialize calls exactly that generic serializer with
\* T's descriptor and returns the result and the output of that direct call.
C2_Fallback ==
    (/\ ret.op = "F.Serialize"
     /\ ~SpecializedFor(ret.T, ret.name)
     /\ GenericFor(ret.name)
     /\ DescriptorFor(ret.T)) =>
        LET g == sr_last[ret.name]
            d == rr_last[ret.T]
            n == Len(ret.trace)
            direct == GenericSerialize(g, ret.obj, d, ret.output0)
        IN  /\ ret.trace[n] = [call |-> "ISerializer.Serialize", ser |-> g, desc |-> d]
            /\ Cardinality({i \in 1..n : ret.trace[i].call \in GenericCalls}) = 1
            /\ Calls(ret.trace) \cap TypeCalls = {}
            /\ ret.result = direct.ok
            /\ ret.output = direct.output

\* serialize of a class declared in a namespace succeeded on the generic path
\* while the other format has a specialized serializer for the class
C2_Witness ==
    /\ ret.op = "F.Serialize"
    /\ ret.T = "nested::NestedClass"
    /\ ~SpecializedFor(ret.T, ret.name)
    /\ \E f \in Formats : SpecializedFor(ret.T, f)
    /\ ret.result
    /\ ret.output = <<"G1", <<<<1, ret.obj["data"]>>>>>>

\* C3: serialize and deserialize return failure without calling a serializer
\* exactly when no specialized serializer is registered for (T, f) and the
\* generic serializer for f or the descriptor for T is missing; in every other
\* registry state a serializer is called.  The call always returns a boolean.
C3_FailClosed ==
    ret.op \in FactoryOps =>
        LET missing == /\ ~SpecializedFor(ret.T, ret.name)
                       /\ (~GenericFor(ret.name) \/ ~DescriptorFor(ret.T))
        IN  /\ ret.result \in BOOLEAN
            /\ NoSerializerCalled(ret.trace) <=> missing
            /\ missing => ret.result = FALSE

\* deserialize failed without calling a serializer: the generic serializer for
\* the format is registered, the descriptor is not
C3_Witness ==
    /\ ret.op = "F.Deserialize"
    /\ ~SpecializedFor(ret.T, ret.name)
    /\ GenericFor(ret.name) /\ ~sr_last[ret.name].fails
    /\ ~DescriptorFor(ret.T)
    /\ rr_last # EmptyMap
    /\ ret.result = FALSE
    /\ NoSerializerCalled(ret.trace)

\* C4: when the specialized serializer registered for (T, f) reports failure,
\* the Factory returns that failure and does not try the generic serializer,
\* even if a generic serializer for f and a descriptor for T are registered.
C4_Verbatim ==
    (/\ ret.op \in FactoryOps
     /\ SpecializedFor(ret.T, ret.name)
     /\ ~DirectTypeCall(srt_last[<<ret.T, ret.name>>]).result) =>
        /\ ret.result = FALSE
        /\ Calls(ret.trace) \cap GenericCalls = {}
        /\ "GetSerializer" \notin Calls(ret.trace)
        /\ Returned.value = (IF ret.op = "F.Serialize" THEN ret.output0 ELSE ret.obj0)

\* deserialize returned the failure of the specialized serializer for an input
\* that the registered generic serializer would have decoded
C4_Witness ==
    /\ ret.op = "F.Deserialize"
    /\ SpecializedFor(ret.T, ret.name)
    /\ ~srt_last[<<ret.T, ret.name>>].fails
    /\ GenericFor(ret.name)
    /\ DescriptorFor(ret.T)
    /\ GenericDeserialize(sr_last[ret.name], ret.input, ret.obj0, rr_last[ret.T]).ok
    /\ ret.result = FALSE

----------------------------------------------------------------------------
(* Claim about Clear of the three registries (checked under SpecReg)       *)

\* C7 (state part): right after Clear of a registry every presence check and
\* lookup of that registry answers false / not found / "", in particular for
\* the entries it held; count() is 0; one Clear of the Serializer Registry
\* empties the generic and the type-specific map.
C7_AfterClear ==
    /\ ret.op = "TR.Clear" =>
          /\ \A T \in RegTypes : ~IsTypeRegistered(T) /\ GetTypeName(T) = ""
          /\ \A n \in RegNames \cup ret.wiped.second : ~HasTypeName(n)
          /\ GetRegisteredTypeCount = 0
          /\ GetAllTypeNames = EmptyBag
    /\ ret.op = "RR.Clear" =>
          /\ \A n \in {GetDemangledTypeName(T) : T \in RegTypes} \cup ret.wiped.first :
                ~HasType(n) /\ GetDescriptor(n) = NULL
          /\ GetRegisteredTypes = EmptyBag
    /\ ret.op = "SR.Clear" =>
          /\ \A f \in RegFormats \cup ret.wiped.first : GetSerializer(f) = NULL
          /\ \A T \in RegTypes, f \in RegFormats :
                GetTypeSerializer(T, f) = NULL /\ ~HasTypeSerializer(T, f)
          /\ \A k \in ret.wiped.second : ~MapHas(type_serializers_, k)

\* C7 (step part): an entry that is absent becomes present only by a
\* registration of that entry.
C7_StaysAbsent ==
    /\ \A T \in RegTypes :
          (~IsTypeRegistered(T) /\ IsTypeRegistered(T)') =>
              (ret'.op = "TR.RegisterType" /\ ret'.T = T)
    /\ \A n \in RegNames :
          (~HasTypeName(n) /\ HasTypeName(n)') =>
              (ret'.op = "TR.RegisterType"
                 /\ ExpectedName(ret'.T, ret'.custom_name) = n)
    /\ \A T \in RegTypes :
          (~HasType(GetDemangledTypeName(T)) /\ HasType(GetDemangledTypeName(T))') =>
              (ret'.op = "RR.RegisterType" /\ ret'.name = T)
    /\ \A f \in RegFormats :
          (GetSerializer(f) = NULL /\ GetSerializer(f)' # NULL) =>
              (ret'.op = "SR.RegisterSerializer" /\ ret'.name = f)
    /\ \A T \in RegTypes, f \in RegFormats :
          (~HasTypeSerializer(T, f) /\ HasTypeSerializer(T, f)') =>
              (ret'.op = "SR.RegisterTypeSerializer" /\ ret'.T = T /\ ret'.name = f)

\* C7: isolation after Clear, until the entry is registered again
C7_Isolation == [](C7_AfterClear) /\ [][C7_StaysAbsent]_vars

\* Clear of the Serializer Registry returned after wiping a generic and a
\* type-specific serializer, while the other two registries keep their entries
C7_Witness ==
    /\ ret.op = "SR.Clear"
    /\ ret.wiped.first # {} /\ ret.wiped.second # {}
    /\ serializers_ = EmptyMap /\ type_serializers_ = EmptyMap
    /\ type_names_ # EmptyMap /\ descriptors_ # EmptyMap

----------------------------------------------------------------------------
(* Claim about the Reflection Registry (checked under SpecRR)              *)

\* C10: get(name) returns the descriptor most recently registered under name
\* since the last clear and not-found if there is none; has(name) is true
\* exactly when get(name) finds one; all_names() lists exactly the names for
\* which has is true, each once.
C10_Lookup ==
    /\ \A n \in RRNames :
          /\ GetDescriptor(n) = (IF n \in DOMAIN rr_last THEN rr_last[n] ELSE NULL)
          /\ HasType(n) <=> GetDescriptor(n) # NULL
          /\ CopiesIn(n, GetRegisteredTypes) = (IF HasType(n) THEN 1 ELSE 0)
    /\ BagToSet(GetRegisteredTypes) \subseteq RRNames
    /\ ret.op = "RR.GetDescriptor" =>
          ret.val = (IF ret.name \in DOMAIN rr_last THEN rr_last[ret.name] ELSE NULL)
    /\ ret.op = "RR.HasType" => (ret.val <=> ret.name \in DOMAIN rr_last)
    /\ ret.op = "RR.GetRegisteredTypes" => BagToSet(ret.val) = DOMAIN rr_last

\* get returned, under the name the registration macro uses for a class in a
\* namespace, the descriptor with a field while the other names hold
\* descriptors too
C10_Witness ==
    /\ ret.op = "RR.GetDescriptor"
    /\ ret.name = "NestedClass"
    /\ ret.val = FullDescriptor("nested::NestedClass")
    /\ MapSize(descriptors_) = 3


----------------------------------------------------------------------------
(* Claims about the Serializer Registry (checked under SpecSR)             *)

\* by the histories: the serializer most recently registered under exactly
\* (T, f), or under f, since the last Clear
LastSpecialized(T, f) ==
    IF <<T, f>> \in DOMAIN srt_last THEN srt_last[<<T, f>>] ELSE NULL
LastGeneric(f) == IF f \in DOMAIN sr_last THEN sr_last[f] ELSE NULL

\* C11: get_specialized(T, f) returns the serializer most recently registered
\* under exactly (T, f) and get_generic(f) the one most recently registered
\* under f, whatever was registered under other types and formats, for every
\* choice of types and format names; the lookups that returned agree.
C11_KeyIndependence ==
    /\ \A T \in SRTypes, f \in Formats :
          GetTypeSerializer(T, f) = LastSpecialized(T, f)
    /\ \A f \in Formats : GetSerializer(f) = LastGeneric(f)
    /\ ret.op = "SR.GetTypeSerializer" => ret.val = LastSpecialized(ret.T, ret.name)
    /\ ret.op = "SR.GetSerializer" => ret.val = LastGeneric(ret.name)


\* get_specialized(T, f) hands out only a serializer that was registered for
\* the class T itself
OnlyOwnType ==
    \A T \in SRTypes, f \in Formats :
        GetTypeSerializer(T, f) # NULL =>
            /\ <<T, f>> \in DOMAIN srt_last
            /\ GetTypeSerializer(T, f) \in TypeImpls(T)

\* C20: get_specialized(T, f) returns a serializer only if it was registered
\* for exactly T (asking under another class yields not-found), and
\* has_specialized(T, f) is true exactly when get_specialized(T, f) returns a
\* serializer, in every reachable state.
C20_MismatchNotFound ==
    /\ OnlyOwnType
    /\ \A T \in SRTypes, f \in Formats :
          HasTypeSerializer(T, f) <=> GetTypeSerializer(T, f) # NULL


----------------------------------------------------------------------------
(* Claims about MessageDescriptor (checked under SpecMD)                   *)

\* C16: in a descriptor reached by any sequence of field additions no two
\* fields have the same field_number and no two fields have the same name.
C16_Unique ==
    \A i, j \in 1..Len(local_desc.fields) :
        i # j => /\ local_desc.fields[i].field_number # local_desc.fields[j].field_number
                 /\ local_desc.fields[i].name # local_desc.fields[j].name

\* by the history: the positions of the added fields with a name or a number
NamedAt(name) == {i \in 1..Len(added) : added[i].name = name}
NumberedAt(number) == {i \in 1..Len(added) : added[i].field_number = number}
FirstAt(positions) ==
    IF positions = {} THEN NULL
    ELSE added[CHOOSE i \in positions : \A j \in positions : i <= j]

C17_OrderInv ==
    /\ local_desc.fields = added
    /\ \A n \in FieldNames \cup {"missing"} :
          GetField(local_desc, n) = FirstAt(NamedAt(n))
    /\ \A k \in FieldNumbers \cup {0} :
          GetFieldByNumber(local_desc, k) = FirstAt(NumberedAt(k))
    /\ ret.op = "MD.GetField" => ret.val = FirstAt(NamedAt(ret.name))
    /\ ret.op = "MD.GetFieldByNumber" => ret.val = FirstAt(NumberedAt(ret.number))

C17_OrderStep ==
    /\ ret'.op \in {"MD.AddField", "MD.AddFieldToDescriptor"} =>
          /\ Len(local_desc'.fields) = Len(local_desc.fields) + 1
          /\ SubSeq(local_desc'.fields, 1, Len(local_desc.fields)) = local_desc.fields
          /\ local_desc'.message_name = local_desc.message_name
    /\ ret'.op \in {"MD.GetField", "MD.GetFieldByNumber"} => local_desc' = local_desc

\* C17: the fields of a descriptor are exactly the added fields in the order
\* they were added (an addition keeps every earlier field in place); lookup by
\* name and lookup by number return the first field in insertion order that
\* matches and not-found when none does; no lookup changes the descriptor.
C17_OrderAndLookup == [](C17_OrderInv) /\ [][C17_OrderStep]_vars

\* a lookup by name returned the first of two fields with that name, which
\* was added after a field with another name
C17_Witness ==
    /\ ret.op = "MD.GetField"
    /\ Len(local_desc.fields) = 3
    /\ local_desc.fields[1].name # ret.name
    /\ local_desc.fields[2].name = ret.name
    /\ local_desc.fields[3].name = ret.name
    /\ local_desc.fields[2] # local_desc.fields[3]
    /\ ret.val = local_desc.fields[2]


----------------------------------------------------------------------------
(* Claims about static registration (checked under SpecSU)                 *)

Ran == program \ pending

\* the contents the registrars that have run are expected to leave, whatever
\* the order they ran in
ExpectedTypeNames ==
    {<<TypeIdName(r.T), ExpectedName(r.T, r.custom_name)>> : r \in Ran \cap TypeRegistrars}
ExpectedDescriptors ==
    {<<Stringized(r.T), FullDescriptor(r.T)>> : r \in Ran \cap ReflectionRegistrars}
Pairs(m) == {<<k, m[k]>> : k \in DOMAIN m}
Reversed(ps) == {<<p[2], p[1]>> : p \in ps}

\* C18: for start-up registrations of distinct types under distinct names,
\* whatever order the registrars run in, the contents of the Type Name
\* Registry and of the Reflection Registry are determined by the set of
\* registrars that have run; every registrar still pending can run in every
\* state (it needs no other type to be registered); a registry that has been
\* written to has been created by the first access.
C18_OrderIndependent ==
    /\ Pairs(type_names_) = ExpectedTypeNames
    /\ Pairs(name_to_type_id_) = Reversed(ExpectedTypeNames)
    /\ Pairs(descriptors_) = ExpectedDescriptors
    /\ \A r \in pending \cap TypeRegistrars : ENABLED SU_RegisterType(r)
    /\ \A r \in pending \cap ReflectionRegistrars : ENABLED SU_RegisterReflection(r)
    /\ (Ran \cap TypeRegistrars # {}) => "TypeRegistry" \in created
    /\ (Ran \cap ReflectionRegistrars # {}) => "ReflectionRegistry" \in created

\* four registrars have all run and the one that ran last registers the class
\* in a namespace under a custom name
C18_Witness ==
    /\ pending = {}
    /\ Cardinality(program) = 4
    /\ ret.op = "REGISTER_TYPE_WITH_NAME"
    /\ ret.T = "nested::NestedClass"
    /\ MapSize(type_names_) = 2
    /\ MapSize(descriptors_) = 2


\* the classes whose GRLRPC_REGISTER_TYPE registrar has run
MacroRegistered == {r.T : r \in Ran \cap ReflectionRegistrars}

\* C19: for every class T whose descriptor was installed by
\* GRLRPC_REGISTER_TYPE, the key the descriptor is stored under is the name
\* the Factory computes for T; hence, with a generic serializer registered for
\* f and no specialized one, Serialize of a T object calls the generic
\* serializer with T's descriptor, also for a class declared in a namespace.
C19_KeyAgreement ==
    /\ \A T \in MacroRegistered :
          /\ Stringized(T) = GetDemangled(T)
          /\ GetDescriptor(GetDemangled(T)) = FullDescriptor(T)
    /\ (/\ ret.op = "F.Serialize"
        /\ ret.T \in MacroRegistered
        /\ GenericFor(ret.name)
        /\ ~SpecializedFor(ret.T, ret.name)) =>
            /\ ret.trace[Len(ret.trace)] =
                  [call |-> "ISerializer.Serialize", ser |-> sr_last[ret.name],
                   desc |-> FullDescriptor(ret.T)]
            /\ ret.result


----------------------------------------------------------------------------
(* Claims about Serialize followed by Deserialize (checked under SpecRT)   *)

\* by the histories: the serializer a Factory call on (T, f) is to use is
\* registered and does not fail
Lossless(T, f) ==
    IF SpecializedFor(T, f)
    THEN ~srt_last[<<T, f>>].fails
    ELSE GenericFor(f) /\ ~sr_last[f].fails /\ DescriptorFor(T)

DeclaredFields(T) == IF DescriptorFor(T) THEN rr_last[T].fields ELSE <<>>

RoundTrip == ret.op = "F.Deserialize" /\ "from" \in DOMAIN ret

\* C14: when Deserialize is handed the output of the Serialize call on the
\* same class and format that returned just before it (no registry call in
\* between) and the serializer for them is lossless, both calls succeed and
\* every field declared in the class's descriptor reads the same from the
\* filled instance as from the serialized object.
C14_RoundTrip ==
    (RoundTrip /\ Lossless(ret.T, ret.name)) =>
        /\ ret.from.result
        /\ ret.result
        /\ \A i \in 1..Len(DeclaredFields(ret.T)) :
              Getter(DeclaredFields(ret.T)[i], ret.obj)
                = Getter(DeclaredFields(ret.T)[i], ret.from.obj)

\* a round trip on the generic path changed the caller's instance of the
\* class in a namespace into the serialized object
C14_Witness ==
    /\ RoundTrip
    /\ ret.T = "nested::NestedClass"
    /\ ~SpecializedFor(ret.T, ret.name)
    /\ Lossless(ret.T, ret.name)
    /\ Len(DeclaredFields(ret.T)) = 1
    /\ ret.obj0 # ret.from.obj
    /\ ret.obj = ret.from.obj
    /\ ret.result


\* the path a Factory call resolved to, read off the last entry of its trace:
\* a specialized serializer, a generic serializer with a descriptor, or failure
PathOf(trace) ==
    LET last == trace[Len(trace)]
    IN  IF last.call \in TypeCalls THEN [path |-> "specialized", ser |-> last.ser]
        ELSE IF last.call \in GenericCalls
             THEN [path |-> "generic", ser |-> last.ser, desc |-> last.desc]
             ELSE [path |-> "failure"]

C15_SamePath ==
    /\ \A T \in FTypes, f \in RegFormats :
          \A obj \in Objects(T), input \in Inputs(T) :
              PathOf(FactorySerialize(T, obj, f, OldOutput).trace)
                = PathOf(FactoryDeserialize(T, input, obj, f).trace)
    /\ RoundTrip => PathOf(ret.trace) = PathOf(ret.from.trace)

C15_OnlyInstance ==
    ret'.op = "F.Deserialize" =>
        /\ UNCHANGED <<type_names_, name_to_type_id_, descriptors_, serializers_,
                       type_serializers_>>
        /\ ret'.obj \in Objects(ret'.T)

\* C15: in every registry state, for every class and format, Serialize and
\* Deserialize resolve to the same path: the same specialized serializer, or
\* the same generic serializer with the same descriptor, or failure;
\* Deserialize changes no registry, only the instance it was handed.
C15_Mirror == [](C15_SamePath) /\ [][C15_OnlyInstance]_vars

\* Deserialize took the generic path with the descriptor of the class in a
\* namespace, as the Serialize call before it did, while the other class has
\* a specialized serializer
C15_Witness ==
    /\ RoundTrip
    /\ ret.T = "nested::NestedClass"
    /\ PathOf(ret.trace).path = "generic"
    /\ PathOf(ret.trace).desc = FullDescriptor(ret.T)
    /\ PathOf(ret.from.trace) = PathOf(ret.trace)
    /\ \E f \in RegFormats : SpecializedFor("TestClass1", f)


----------------------------------------------------------------------------
(* Claims about threads (checked under SpecConc and SpecLive)              *)

\* C12: under every interleaving of two threads, each call answers what the
\* same call answers when the calls are applied whole, one after the other,
\* in the order they took the lock; while no thread is inside a registry its
\* maps are the result of that sequential order, so of two registrations of
\* one type or one name the later one stands; a thread that reads a registry
\* never sees it between the two writes of another thread's call.
C12_Atomic ==
    /\ \A t \in Threads :
          (pc[t].at = "unlock" /\ pc[t].call.op \in
              {"TR.GetTypeName", "TR.HasTypeName", "RR.GetDescriptor"}) =>
                  pc[t].val = lin_val[t]
    /\ ret.op \in {"TR.GetTypeName", "TR.HasTypeName", "RR.GetDescriptor"} =>
          ret.val = ret.lin_val
    /\ mutex["TypeRegistry"] = "" =>
          /\ type_names_ = lin.type_names_
          /\ name_to_type_id_ = lin.name_to_type_id_
          /\ \A T \in DOMAIN tr_last :
                type_names_[TypeIdName(T)] = ExpectedName(T, tr_last[T])
    /\ mutex["ReflectionRegistry"] = "" => descriptors_ = lin.descriptors_
    /\ \A t \in Threads :
          pc[t].at = "TR.read" =>
              /\ type_names_ = lin.type_names_
              /\ name_to_type_id_ = lin.name_to_type_id_
              /\ \A u \in Threads \ {t} :
                    pc[u].at \notin {"TR.forward", "TR.reverse", "TR.read",
                                     "TR.clear_forward", "TR.clear_reverse", "unlock"}
                      \/ RegistryOf(pc[u].stage) # "TypeRegistry"

\* one thread is between the two writes of RegisterType (the forward map has
\* the type, the reverse map lacks its name) while the other thread, which
\* called HasTypeName for that name, waits for the mutex
C12_Witness ==
    \E t, u \in Threads :
        /\ pc[t].at = "TR.reverse"
        /\ pc[t].call.T = "TestClass2" /\ pc[t].call.custom_name = "TestClass1"
        /\ MapHas(type_names_, TypeIdName("TestClass2"))
        /\ type_names_[TypeIdName("TestClass2")] = "TestClass1"
        /\ ~MapHas(name_to_type_id_, "TestClass1")
        /\ pc[u].at = "lock"
        /\ pc[u].call.op = "TR.HasTypeName"


Held(t) == {r \in Registries : mutex[r] = t}

C13_Locks ==
    \A t \in Threads :
        /\ Cardinality(Held(t)) <= 1
        /\ pc[t].at \in {"idle", "lock", "call"} => Held(t) = {}
        /\ pc[t].at \notin {"idle", "lock", "call"} => Held(t) = {RegistryOf(pc[t].stage)}

C13_Returns == \A t \in Threads : (pc[t] # Idle) ~> (pc[t] = Idle)

C21_Live ==
    \A t \in Threads : pc[t] # Idle /\ pc[t].at = "call" => t \notin stale


-----------------------------------------------------------------------------
(* Claims about the Factory's lookups (checked under SpecF)                *)

\* the positions of the lookups named c in the trace of the Factory call in ret
LookupsAt(c) == {i \in 1..Len(ret.trace) : ret.trace[i].call = c}

\* C22: when no specialized serializer is registered for (T, f), the Factory
\* looks up T's descriptor and only after that the generic serializer for f;
\* when the descriptor is missing it does not look up the generic serializer.
C22_DescriptorFirst ==
    (ret.op \in FactoryOps /\ ~SpecializedFor(ret.T, ret.name)) =>
        /\ LookupsAt("GetDescriptor") # {}
        /\ \A i \in LookupsAt("GetSerializer") :
              \E j \in LookupsAt("GetDescriptor") : j < i
        /\ ~DescriptorFor(ret.T) => LookupsAt("GetSerializer") = {}


\* the five maps of the three registries
RegistryMaps ==
    <<type_names_, name_to_type_id_, descriptors_, serializers_, type_serializers_>>

C23_NoRegistryChange == ret'.op \in FactoryOps => RegistryMaps' = RegistryMaps

C23_FailureKeeps ==
    (ret.op \in FactoryOps /\ NoSerializerCalled(ret.trace)) =>
        /\ ~ret.result
        /\ ret.op = "F.Serialize" => ret.output = ret.output0
        /\ ret.op = "F.Deserialize" => ret.obj = ret.obj0

\* C23: a Factory call adds, removes and replaces no entry of any registry;
\* when it resolves to no serializer it returns failure, Serialize with the
\* caller's output string as it was and Deserialize with the caller's object
\* as it was.
C23_FactoryFrame == [](C23_FailureKeeps) /\ [][C23_NoRegistryChange]_vars

\* Serialize found the generic serializer for the format and no descriptor for
\* the class, in registries that hold entries; the output string is the one
\* handed in
C23_Witness ==
    /\ ret.op = "F.Serialize"
    /\ NoSerializerCalled(ret.trace)
    /\ Len(ret.trace) = 3
    /\ ret.output = OldOutput
    /\ MapHas(serializers_, ret.name)
    /\ type_serializers_ # EmptyMap
    /\ ~MapHas(descriptors_, GetDemangled(ret.T))


-----------------------------------------------------------------------------
(* Claim about the registries side by side (checked under SpecFrame)       *)

TypeRegistryMaps == <<type_names_, name_to_type_id_>>
ReflectionRegistryMaps == <<descriptors_>>
SerializerRegistryMaps == <<serializers_, type_serializers_>>

TypeRegistryWrites == {"TR.RegisterType", "TR.Clear"}
ReflectionRegistryWrites == {"RR.RegisterType", "RR.Clear"}
SerializerRegistryWrites ==
    {"SR.RegisterSerializer", "SR.RegisterTypeSerializer", "SR.Clear"}
RegistryQueries ==
    {"TR.GetTypeName", "TR.IsTypeRegistered", "TR.HasTypeName", "TR.GetAllTypeNames",
     "TR.GetRegisteredTypeCount", "RR.GetDescriptor", "RR.HasType",
     "RR.GetRegisteredTypes", "SR.GetSerializer", "SR.GetTypeSerializer",
     "SR.HasTypeSerializer"}

C24_Step ==
    /\ ret'.op \in TypeRegistryWrites =>
          UNCHANGED <<ReflectionRegistryMaps, SerializerRegistryMaps>>
    /\ ret'.op \in ReflectionRegistryWrites =>
          UNCHANGED <<TypeRegistryMaps, SerializerRegistryMaps>>
    /\ ret'.op \in SerializerRegistryWrites =>
          UNCHANGED <<TypeRegistryMaps, ReflectionRegistryMaps>>
    /\ ret'.op \in RegistryQueries =>
          UNCHANGED <<TypeRegistryMaps, ReflectionRegistryMaps, SerializerRegistryMaps>>

\* C24: a registration or Clear of one registry leaves the maps of the other
\* two registries as they were, and a query of any registry leaves the maps of
\* all three as they were, also when the key asked for is absent.
C24_Independence == [][C24_Step]_vars

\* GetTypeName was asked for a class that is not registered, answered the empty
\* name, and the forward map holds only the other class; the other two
\* registries hold entries
C24_Witness ==
    /\ ret.op = "TR.GetTypeName"
    /\ ret.val = ""
    /\ ~MapHas(type_names_, TypeIdName(ret.T))
    /\ MapSize(type_names_) = 1
    /\ descriptors_ # EmptyMap
    /\ serializers_ # EmptyMap
    /\ type_serializers_ # EmptyMap


-----------------------------------------------------------------------------
(* Claim about the Factory and the Type Name Registry (checked under       *)
(* SpecNames)                                                              *)

\* what every Factory call would answer in the current state: result, output
\* or object, and the lookups and serializer calls made
FactoryOutcomes ==
    [T \in RegTypes, f \in RegFormats |->
        [serialize |-> [obj \in Objects(T) |-> FactorySerialize(T, obj, f, OldOutput)],
         deserialize |-> [input \in Inputs(T) |->
                             FactoryDeserialize(T, input, ObjectAt(T, 0), f)]]]

C25_Step ==
    (/\ ReflectionRegistryMaps' = ReflectionRegistryMaps
     /\ SerializerRegistryMaps' = SerializerRegistryMaps)
        => FactoryOutcomes' = FactoryOutcomes

\* C25: two states with the same Reflection Registry and Serializer Registry
\* give the same Factory outcome (path and result) for every class, format and
\* argument, whatever the Type Name Registry holds in each: across every step
\* that keeps the two registries, the outcomes of all Factory calls stay equal.
C25_NameIndependent == [][C25_Step]_vars

\* Serialize succeeded on the generic path with the descriptor under the
\* demangled name while the Type Name Registry holds the class under a custom
\* name
C25_Witness ==
    /\ ret.op = "F.Serialize"
    /\ ret.result
    /\ Calls(ret.trace) \cap GenericCalls # {}
    /\ MapHas(type_names_, TypeIdName(ret.T))
    /\ type_names_[TypeIdName(ret.T)] = "CustomName"

====
